---- MODULE Spec2Model ----
(***************************************************************************)
(* The resumable chunked load engine of ihutilities: do_etl                *)
(* (src/src/ihutilities/ETL_framework.py) over the relational store        *)
(* adapter (src/src/ihutilities/db_utils.py), sqlite backend, mode =       *)
(* "production".                                                           *)
(*                                                                         *)
(* One store holds the three tables do_etl works on: property_data (the    *)
(* target), metadata and session_log.  do_etl is a single thread; every    *)
(* store call (configure_db, write_to_db, update_to_db) opens a            *)
(* connection, commits and closes, so the process can be killed between    *)
(* any two of them.  Each action below is one such stretch of code.        *)
(***************************************************************************)
EXTENDS Integers, Sequences, FiniteSets, Bags, TLC

\* ------------------------------------------------------------- bounds
\* longest input file (rows)
MaxLen == 3
\* number of session_log records a store may hold (do_etl invocations that
\* got as far as the session log)
MaxSessions == 2
\* largest chunk_size
MaxChunk == 2

\* ------------------------------------------------------------- inputs
\* Content hashes (calculate_file_sha) of the input files offered to do_etl.
Shas == {"A", "B"}

\* An input row is 0 when the rowmaker returns None for it (malformed) and
\* k > 0 when it yields one record whose primary-key column holds k.
Malformed == 0

\* A row that lacks a named field the record needs: the rowmaker raises
\* KeyError for it.
MissingField == -2

\* A row whose record the target table refuses whatever its key (a NOT NULL
\* column left empty): the store raises IntegrityError for it.
Refused == -3

\* Key values are introduced in order: a row carries a key seen before or
\* the next unused one, which is every input up to a renaming of the keys.
InOrder(s) ==
    \A j \in 1..Len(s) :
        s[j] > 1 => \E k \in 1..(j - 1) : s[k] = s[j] - 1

Inputs ==
    { s \in UNION { [1..n -> 0..MaxLen] : n \in 1..MaxLen } : InOrder(s) }

\* The second file is a plain one-row file.
SecondFile == <<1>>

\* longest input file of the runs in test mode
MaxTestLen == 5
\* largest test_line_limit tried, the default apart
MaxLimit == 2

\* do_etl(test_line_limit=10000) by default; float("inf") in production.
DefaultLimit == 10000
Infinity == 1000000

\* Files of n well-formed rows with keys 1..n.
PlainInputs(n) == { [j \in 1..m |-> j] : m \in 1..n }

\* Files of well-formed rows with keys 1..n but for one faulty row.
FaultyInputs(n) ==
    { [j \in 1..m |-> IF j = k THEN fault ELSE j] :
          m \in 1..n, k \in 1..n, fault \in {MissingField, Refused} }
        \ PlainInputs(n)

VARIABLES
    \* configuration of the caller, the same in every invocation
    files,            \* sha -> rows of the file with that content
    chunk_size,       \* do_etl(chunk_size=...)
    autoinc,          \* primary_key == "ID" and data_field_lookup["ID"] is None
    mode,             \* do_etl(mode=...)
    chaos_monkey,     \* do_etl(chaos_monkey=...)
    test_line_limit,  \* do_etl(test_line_limit=...)
    \* the store
    metadata,         \* set of [SequenceNumber, datafile_sha, status, chunk_count]
    session_log,      \* set of [ID, datafile_sha, first_chunk, last_chunk]
    property_data,    \* bag of <<sha, row index>>: the records of the target table
    \* the store as configure_db sees it
    db_given,         \* do_etl(db_config=...): a path, or a dictionary
    db_resolved,      \* the db_config do_etl works with and returns
    catalog,          \* table name -> rows, for the tables the store holds
    configured,       \* the latest configure_db call and the tables it found,
                      \* until a row is written
    \* the running do_etl
    pc,
    datafile_sha,
    force,
    id_,
    chunk_skip,
    chunk_count,
    line_count,
    i,                \* enumerate(rows) index, 0-based
    data,             \* write buffer: row indices (1-based) of the current file
    primary_key_set,
    lines_dropped,
    malformed_lines,
    sessid,
    \* history, kept for the properties only
    called,           \* the content hash of the latest invocation
    outcome,          \* how it ended: the status returned, "raised" or "killed";
                      \* "running" while it has not, "" before the first
    before,           \* metadata and session_log as the latest invocation found
                      \* them (after its configure_db), while it runs and after
                      \* it has returned
    attempted,        \* hashes that got a metadata record since the store was created
    completed,        \* hashes for which do_etl returned "Completed" since then
    dirty,            \* hashes with rows in the target that no checkpoint counts: a
                      \* kill or an exception between a write and the metadata
                      \* update that follows it
    \* the store adapter called on its own
    test,             \* the table "test" of test_db_utils.py: set of
                      \* [UPRN, PropertyID, Addr1]
    call,             \* the latest call of the adapter: its arguments, the table
                      \* as it found it, what it returned or raised
    reading,          \* the running read_db: the attempts made, the time slept
    \* the parallel chunk builder (parallel_build_cache.py)
    key_chunks,       \* list(key_method(chunk_size)): the keys, chunk by chunk
    chunk_log,        \* bag of chunk_number: the rows of the table chunk_log
    todo_chunk_list,  \* bag of chunk_number, as read or generated at the start
    futures,          \* chunk number -> "submitted", "built" or "received"
    chunk_loc,        \* the chunk whose result is being committed
    n_chunks_received,
    runs              \* build_cache invocations so far

store == <<metadata, session_log, property_data>>
config == <<files, chunk_size, autoinc, mode, chaos_monkey, test_line_limit>>
locals == <<datafile_sha, force, id_, chunk_skip, chunk_count, line_count, i, data,
            primary_key_set, lines_dropped, malformed_lines, sessid>>
history == <<called, outcome, before, attempted, completed, dirty>>
backend == <<db_given, db_resolved, catalog, configured>>
adapter == <<test, call, reading>>
builder == <<key_chunks, chunk_log, todo_chunk_list, futures, chunk_loc,
             n_chunks_received, runs>>
vars == <<config, backend, adapter, builder, store, pc, locals, history>>

\* ------------------------------------------------------------- store identity
\* most parts of a path or database name
MaxPath == 2
\* most rows of a table of the catalog
MaxRows == 1

\* A path or a database name is a sequence of these parts.
Tokens == {"data", ".sqlite", "-test", "_test"}
Paths == UNION { [1..n -> Tokens] : n \in 1..MaxPath }

\* db_config: the path of a sqlite file in a string, or a dictionary with
\* db_type and db_path (sqlite) or db_name (mysql, mariadb).
Configs ==
    { [kind |-> "str", db_type |-> "", name |-> p] : p \in Paths }
        \cup { [kind |-> "dict", db_type |-> t, name |-> p] :
                   t \in {"sqlite", "mysql"}, p \in Paths }

\* The db_config of a do_etl that has not got to it, and of one that raised
\* TypeError on it.
Unresolved == [kind |-> "none", db_type |-> "", name |-> << >>]
TypeError == [kind |-> "TypeError", db_type |-> "", name |-> << >>]

\* str.endswith
endswith(s, suffix) ==
    /\ Len(s) >= Len(suffix)
    /\ SubSeq(s, Len(s) - Len(suffix) + 1, Len(s)) = suffix

\* str.replace(old, new), every occurrence
RECURSIVE replace(_, _, _)
replace(s, old, new) ==
    IF s = << >> THEN << >>
    ELSE (IF Head(s) = old THEN new ELSE <<Head(s)>>) \o replace(Tail(s), old, new)

\* Lines 221-235 of do_etl: the store is renamed in test mode.  On a string
\* that ends with "-test.sqlite" the elif subscripts the string with
\* "db_type", which raises TypeError.
test_config(cfg) ==
    IF cfg.kind = "str" /\ ~endswith(cfg.name, <<"-test", ".sqlite">>)
    THEN [cfg EXCEPT !.name = replace(cfg.name, ".sqlite", <<"-test", ".sqlite">>)]
    ELSE IF cfg.kind = "str"
    THEN TypeError
    ELSE IF cfg.db_type \in {"mysql", "mariadb"} /\ ~endswith(cfg.name, <<"_test">>)
    THEN [cfg EXCEPT !.name = Append(cfg.name, "_test")]
    ELSE cfg

\* _normalise_config: a string becomes the dictionary of a sqlite store.
normalise_config(cfg) ==
    IF cfg.kind = "str" THEN [kind |-> "dict", db_type |-> "sqlite", name |-> cfg.name]
    ELSE cfg

\* The tables of a store: a function from the names of the tables it holds
\* to their rows.
TableNames == {"property_data", "metadata", "other"}
NoTables == [t \in {} |-> {}]
NotConfigured == [tables |-> {}, force |-> FALSE, before |-> NoTables]

\* A removal that does not ask which backend it is.
remove_any_store(cat, db_type, f) == IF f THEN NoTables ELSE cat

\* configure_db, lines 78-80: with force the file of a sqlite store is removed.
remove_store_file(cat, db_type, f) ==
    IF db_type = "sqlite" /\ f THEN NoTables ELSE cat

\* A table creation that drops every table it is given.
recreate_tables_db(cat, tabs, f) ==
    [t \in DOMAIN cat \cup tabs |-> IF t \in tabs THEN {} ELSE cat[t]]

\* _create_tables_db: with force each named table is dropped; each named
\* table that does not exist is created.
create_tables_db(cat, tabs, f) ==
    [t \in DOMAIN cat \cup tabs |->
        IF t \in tabs /\ (f \/ t \notin DOMAIN cat) THEN {} ELSE cat[t]]

configure_db(cat, db_type, tabs, f) ==
    create_tables_db(remove_store_file(cat, db_type, f), tabs, f)

\* ------------------------------------------------------------- store adapter
\* Python's None, where the code tests for it.
None == -1

Max(S) == CHOOSE m \in S : \A x \in S : x <= m

\* The primary-key value of a target record.  Records of different files
\* carry different keys; with autoinc the column is None and the store
\* assigns the identity.
KeyOf(row) == <<row[1], files[row[1]][row[2]]>>

\* sqlite3.IntegrityError: the table refuses the record, or already holds
\* one with this key.
Violates(table, row) ==
    \/ files[row[1]][row[2]] = Refused
    \/ /\ ~autoinc
       /\ \E old \in BagToSet(table) : KeyOf(old) = KeyOf(row)

\* A write that loses the rows handed to it.
write_nothing(table, sha, rows) == table

\* write_to_db(whatever=True): each row is tried on its own, the rejected
\* ones are left out.
RECURSIVE write_whatever(_, _, _)
write_whatever(table, sha, rows) ==
    IF rows = << >> THEN table
    ELSE LET row == <<sha, Head(rows)>>
         IN  write_whatever(IF Violates(table, row) THEN table
                            ELSE table (+) SetToBag({row}),
                            sha, Tail(rows))

\* A write that reports success and keeps no row.
write_unacknowledged(table, sha, rows) == [table |-> table, ok |-> TRUE]

\* The rows that reach the table up to the first constraint violation, and
\* whether there was none.
RECURSIVE write_strict(_, _, _)
write_strict(table, sha, rows) ==
    IF rows = << >> THEN [table |-> table, ok |-> TRUE]
    ELSE LET row == <<sha, Head(rows)>>
         IN  IF Violates(table, row) THEN [table |-> table, ok |-> FALSE]
             ELSE write_strict(table (+) SetToBag({row}), sha, Tail(rows))

\* A tolerant write that reports no row.
no_rejected_data(table, sha, rows) == << >>

\* write_to_db(whatever=True), lines 190-195: the rows whose INSERT raised
\* IntegrityError, in the order of the batch.
RECURSIVE rejected_data(_, _, _)
rejected_data(table, sha, rows) ==
    IF rows = << >> THEN << >>
    ELSE LET row == <<sha, Head(rows)>>
         IN  IF Violates(table, row)
             THEN <<Head(rows)>> \o rejected_data(table, sha, Tail(rows))
             ELSE rejected_data(table (+) SetToBag({row}), sha, Tail(rows))

\* write_to_db, lines 190-214: the table after the call, the rows returned
\* and whether it raised.  In strict mode the connection is closed without a
\* commit when executemany raises (203-205): no row of the batch is kept.
write_to_db(table, sha, rows, whatever) ==
    IF whatever
    THEN [table |-> write_whatever(table, sha, rows),
          rejected |-> rejected_data(table, sha, rows),
          raised |-> FALSE]
    ELSE LET written == write_strict(table, sha, rows)
         IN  [table |-> IF written.ok THEN written.table ELSE table,
              rejected |-> << >>,
              raised |-> ~written.ok]

\* An update that does not reach the table.
update_nothing(table, seq, count) == table

\* update_to_db(..., table="metadata", key="SequenceNumber") with the fields
\* chunk_count and SequenceNumber.
update_chunk_count(table, seq, count) ==
    { IF r.SequenceNumber = seq THEN [r EXCEPT !.chunk_count = count] ELSE r
      : r \in table }

\* A final update that stores the chunk_count and leaves the status.
update_count_only(table, seq, sha, status, count) ==
    { IF r.SequenceNumber = seq THEN [r EXCEPT !.chunk_count = count] ELSE r
      : r \in table }

\* update_to_db(..., table="metadata", key="SequenceNumber") with every field.
update_metadata(table, seq, sha, status, count) ==
    { IF r.SequenceNumber = seq
      THEN [r EXCEPT !.datafile_sha = sha, !.status = status, !.chunk_count = count]
      ELSE r
      : r \in table }

\* An update that leaves the one record in the table.
keep_only_session(table, id, last) ==
    { [r EXCEPT !.last_chunk = last] : r \in { q \in table : q.ID = id } }

\* An update that moves first_chunk along with last_chunk.
move_first_chunk(table, id, last) ==
    { IF r.ID = id THEN [r EXCEPT !.first_chunk = last, !.last_chunk = last] ELSE r
      : r \in table }

\* update_to_db(..., table="session_log", key="ID") with last_chunk, end_time.
update_session_log(table, id, last) ==
    { IF r.ID = id THEN [r EXCEPT !.last_chunk = last] ELSE r : r \in table }

\* The positions of a row that update_to_db writes: lines 313-318, those that
\* are not key positions and do not hold None.
update_fields_of(row, key_indices) ==
    { j \in 1..Len(row) : j \notin key_indices /\ row[j] # None }

\* An update that writes every position but the key ones.
update_every_field(table, row, db_fields, key) ==
    LET key_indices == { j \in 1..Len(db_fields) : db_fields[j] \in key }
        fields == (1..Len(row)) \ key_indices
    IN  { IF \A k \in key_indices : r[db_fields[k]] = row[k]
          THEN [f \in DOMAIN r |->
                   IF \E j \in fields : db_fields[j] = f
                   THEN row[CHOOSE j \in fields : db_fields[j] = f]
                   ELSE r[f]]
          ELSE r
          : r \in table }

\* update_to_db, lines 308-332, for one row: UPDATE table SET the fields of
\* update_fields WHERE every key field equals its value in the row; no
\* statement when update_fields is empty.  A key value of None matches no
\* record (SQL: key = NULL).
update_row(table, row, db_fields, key) ==
    LET key_indices == { j \in 1..Len(db_fields) : db_fields[j] \in key }
        fields == update_fields_of(row, key_indices)
    IN  IF fields = {} THEN table
        ELSE { IF \A k \in key_indices : row[k] # None /\ r[db_fields[k]] = row[k]
               THEN [f \in DOMAIN r |->
                        IF \E j \in fields : db_fields[j] = f
                        THEN row[CHOOSE j \in fields : db_fields[j] = f]
                        ELSE r[f]]
               ELSE r
               : r \in table }

\* update_to_db(data, db_config, db_fields, table, key): the rows in turn,
\* one commit at the end.
RECURSIVE update_to_db(_, _, _, _)
update_to_db(table, rows, db_fields, key) ==
    IF rows = << >> THEN table
    ELSE update_to_db(update_row(table, Head(rows), db_fields, key),
                      Tail(rows), db_fields, key)

\* ------------------------------------------------------------- ETL helpers
check_if_already_done(table, sha) ==
    Cardinality({ r \in table : r.datafile_sha = sha /\ r.status = "Complete" }) = 1

\* A store that reports no SequenceNumber whatever it holds.
no_sequencenumber(table) == None

get_current_sequencenumber(table) ==
    IF table = {} THEN None ELSE Max({ r.SequenceNumber : r \in table })

\* Chunk progress that is never read back.
no_chunk_count(table, seq, sha) == 0

get_chunk_count(table, seq, sha) ==
    LET found == { r \in table : r.datafile_sha = sha /\ r.SequenceNumber = seq }
    IN  IF Cardinality(found) = 1 THEN (CHOOSE r \in found : TRUE).chunk_count ELSE 0

\* A session ID taken from the latest session instead of following it.
reused_sessid(table) ==
    IF table = {} THEN 1 ELSE Max({ r.ID : r \in table })

\* "select max(ID) as ID from session_log" and the new session ID.
new_sessid(table) ==
    IF table = {} THEN 1 ELSE Max({ r.ID : r \in table }) + 1

\* "select * from metadata where datafile_sha = ... order by SequenceNumber desc"
metadata_of(table, sha) == { r \in table : r.datafile_sha = sha }

\* ------------------------------------------------------------- do_etl
NoLocals ==
    /\ datafile_sha = ""
    /\ force = FALSE
    /\ id_ = 0
    /\ chunk_skip = 0
    /\ chunk_count = 0
    /\ line_count = 0
    /\ i = 0
    /\ data = << >>
    /\ primary_key_set = {}
    /\ lines_dropped = 0
    /\ malformed_lines = 0
    /\ sessid = 0

\* No call of the adapter on its own yet.
NoCall == [op |-> "none"]
NoAdapter ==
    /\ test = {}
    /\ call = NoCall
    /\ reading = NoCall

\* No build_cache yet.
NoBuilder ==
    /\ key_chunks = << >>
    /\ chunk_log = EmptyBag
    /\ todo_chunk_list = EmptyBag
    /\ futures = << >>
    /\ chunk_loc = 0
    /\ n_chunks_received = 0
    /\ runs = 0

\* A store without tables and no do_etl running.
NewStore ==
    /\ db_resolved = Unresolved
    /\ catalog = NoTables
    /\ configured = NotConfigured
    /\ metadata = {}
    /\ session_log = {}
    /\ property_data = EmptyBag
    /\ pc = "idle"
    /\ NoLocals
    /\ called = ""
    /\ outcome = ""
    /\ before = <<{}, {}>>
    /\ attempted = {}
    /\ completed = {}
    /\ dirty = {}

\* Loads in production mode of files with malformed rows and repeated keys.
Init ==
    /\ files \in { [A |-> a, B |-> SecondFile] : a \in Inputs }
    /\ chunk_size \in 1..MaxChunk
    /\ autoinc \in BOOLEAN
    /\ mode = "production"
    /\ chaos_monkey = FALSE
    /\ test_line_limit = DefaultLimit
    /\ db_given = [kind |-> "str", db_type |-> "", name |-> <<"data", ".sqlite">>]
    /\ NewStore
    /\ NoAdapter
    /\ NoBuilder

\* The process ends (return, exception or kill): nothing of it is left but
\* the store.
Forget ==
    /\ pc' = "idle"
    /\ datafile_sha' = ""
    /\ force' = FALSE
    /\ id_' = 0
    /\ chunk_skip' = 0
    /\ chunk_count' = 0
    /\ line_count' = 0
    /\ i' = 0
    /\ data' = << >>
    /\ primary_key_set' = {}
    /\ lines_dropped' = 0
    /\ malformed_lines' = 0
    /\ sessid' = 0

\* do_etl is called with a file whose content is done already: lines 245-259.
AlreadyDone(sha, f) ==
    /\ pc = "idle"
    /\ check_if_already_done(metadata, sha) /\ ~f
    /\ called' = sha
    /\ outcome' = "Already done"
    /\ before' = <<metadata, session_log>>
    /\ UNCHANGED <<config, backend, adapter, builder, store, pc, locals, attempted, completed, dirty>>

\* do_etl up to and including configure_db: lines 245-304.  force=True removes
\* the sqlite file and recreates the tables.
Start(sha, f) ==
    /\ pc = "idle"
    /\ f \/ Cardinality(session_log) < MaxSessions
    /\ ~(check_if_already_done(metadata, sha) /\ ~f)
    /\ IF f THEN /\ metadata' = {}
                 /\ session_log' = {}
                 /\ property_data' = EmptyBag
            ELSE UNCHANGED store
    /\ datafile_sha' = sha
    /\ force' = f
    /\ pc' = "metadata"
    /\ called' = sha
    /\ outcome' = "running"
    /\ before' = <<metadata', session_log'>>
    /\ IF f THEN attempted' = {} /\ completed' = {} /\ dirty' = {}
            ELSE UNCHANGED <<attempted, completed, dirty>>
    /\ UNCHANGED <<config, backend, adapter, builder, id_, chunk_skip, chunk_count, line_count, i, data,
                   primary_key_set, lines_dropped, malformed_lines, sessid>>

\* Lines 308-363: find or create the metadata record, read the chunk progress.
InitMetadata ==
    /\ pc = "metadata"
    /\ LET results == metadata_of(metadata, datafile_sha)
           last_id == get_current_sequencenumber(metadata)
           new_id == IF last_id = None THEN 1 ELSE last_id + 1
           written == IF results # {} THEN metadata
                      ELSE metadata \cup
                             { [SequenceNumber |-> new_id, datafile_sha |-> datafile_sha,
                                status |-> "Started", chunk_count |-> 0] }
           seq == Max({ r.SequenceNumber : r \in metadata_of(written, datafile_sha) })
           skip == get_chunk_count(written, seq, datafile_sha)
       IN  /\ metadata' = written
           /\ id_' = seq
           /\ chunk_skip' = skip
           /\ chunk_count' = skip
    /\ line_count' = 0
    /\ pc' = "session"
    /\ attempted' = attempted \cup {datafile_sha}
    /\ UNCHANGED <<config, backend, adapter, builder, session_log, property_data, datafile_sha, force, i, data,
                   primary_key_set, lines_dropped, malformed_lines, sessid,
                   called, outcome, before, completed, dirty>>

\* Lines 370-407: append the session_log record of this invocation and open
\* the row source.
InitSession ==
    /\ pc = "session"
    /\ LET written == session_log \cup
                        { [ID |-> new_sessid(session_log), datafile_sha |-> datafile_sha,
                           first_chunk |-> chunk_skip, last_chunk |-> chunk_skip] }
       IN  /\ session_log' = written
           /\ sessid' = Max({ r.ID : r \in { q \in written : q.datafile_sha = datafile_sha } })
    /\ i' = 0
    /\ pc' = "loop"
    /\ UNCHANGED <<config, backend, adapter, builder, metadata, property_data, datafile_sha, force, id_, chunk_skip,
                   chunk_count, line_count, data, primary_key_set, lines_dropped,
                   malformed_lines, history>>

\* A rowmaker that makes a record of every row, also of one too short.
make_row_of_anything(row) == row

\* make_row: None for a row that lacks an element the record needs, else the
\* record, given by the value of its primary-key column.
make_row(row) == IF row = Malformed THEN None ELSE row

\* A duplicate test that lets every record through.
always_new(key, seen) == TRUE

\* Lines 457-461: the record is buffered unless its caller-supplied primary
\* key was seen earlier in this run.
not_duplicate(key, seen) == autoinc \/ key \notin seen

\* line_count_offset of lines 358-363.
line_count_offset == IF chunk_skip # 0 THEN chunk_size * chunk_skip ELSE 0

\* test_line_limit as the loop sees it: lines 204-212.
line_limit == IF mode = "production" THEN Infinity ELSE test_line_limit

\* Line 411: the chaos monkey ends the run at the row with this index.
chaos_strikes(j) == mode = "test" /\ chaos_monkey /\ j > chunk_size + 1

\* make_row, lines 76-82: the row lacks a named field, KeyError is raised.
raises_KeyError(row) == row = MissingField

\* Line 549: the row with this index was the last one to be read.
limit_reached(j) == j > line_limit

\* One pass of the loop body, lines 410-509 and 548-550, up to the chunk
\* write: the chaos monkey returns, or the row is skipped, or the rowmaker
\* raises, or the row is dropped as malformed, or it is buffered unless its
\* key was seen.
LoopRow ==
    /\ pc = "loop"
    /\ i < Len(files[datafile_sha])
    /\ LET row == files[datafile_sha][i + 1]
           new_rows == make_row(row)
           key == IF autoinc THEN None ELSE new_rows
           fresh == not_duplicate(key, primary_key_set)
           buffered == IF fresh THEN Append(data, i + 1) ELSE data
       IN  IF chaos_strikes(i)
           THEN /\ Forget
                /\ outcome' = "Chaos monkey invoked"
                /\ before' = <<metadata, session_log>>
                /\ UNCHANGED <<called, attempted, completed, dirty>>
           ELSE IF i < line_count_offset
           THEN /\ i' = i + 1
                /\ UNCHANGED <<pc, datafile_sha, force, id_, chunk_skip, chunk_count,
                               line_count, data, primary_key_set, lines_dropped,
                               malformed_lines, sessid, history>>
           ELSE IF raises_KeyError(row)
           THEN /\ Forget
                /\ outcome' = "KeyError"
                /\ before' = <<metadata, session_log>>
                /\ UNCHANGED <<called, attempted, completed, dirty>>
           ELSE IF new_rows = None
           THEN /\ line_count' = line_count + 1
                /\ malformed_lines' = malformed_lines + 1
                /\ i' = i + 1
                /\ UNCHANGED <<pc, datafile_sha, force, id_, chunk_skip, chunk_count,
                               data, primary_key_set, lines_dropped, sessid, history>>
           ELSE /\ line_count' = line_count + 1
                /\ data' = buffered
                /\ primary_key_set' = IF fresh THEN primary_key_set \cup {key}
                                      ELSE primary_key_set
                /\ lines_dropped' = IF fresh THEN lines_dropped ELSE lines_dropped + 1
                /\ IF (line_count + 1) % chunk_size = 0
                   THEN /\ pc' = IF Len(buffered) # 0 THEN "write" ELSE "upd_meta"
                        /\ i' = i
                   ELSE /\ pc' = IF limit_reached(i) THEN "break" ELSE "loop"
                        /\ i' = i + 1
                /\ UNCHANGED <<datafile_sha, force, id_, chunk_skip, chunk_count,
                               malformed_lines, sessid, history>>
    /\ UNCHANGED <<config, backend, adapter, builder, store>>

\* Lines 510-521: write the chunk; on an IntegrityError the batch is rolled
\* back and written row by row, which raises at the offending row.
WriteChunk ==
    /\ pc = "write"
    /\ LET written == write_strict(property_data, datafile_sha, data)
       IN  /\ property_data' = written.table
           /\ IF written.ok
              THEN /\ pc' = "upd_meta"
                   /\ UNCHANGED <<locals, outcome, before, dirty>>
              ELSE /\ Forget
                   /\ outcome' = "raised"
                   /\ before' = <<metadata, session_log>>
                   /\ dirty' = IF written.table = property_data THEN dirty
                               ELSE dirty \cup {datafile_sha}
    /\ UNCHANGED <<config, backend, adapter, builder, metadata, session_log, called, attempted, completed>>

\* Lines 523-532: advance chunk_count and store it in the metadata record.
UpdateMetadata ==
    /\ pc = "upd_meta"
    /\ chunk_count' = chunk_count + 1
    /\ metadata' = update_chunk_count(metadata, id_, chunk_count + 1)
    /\ pc' = "upd_session"
    /\ UNCHANGED <<config, backend, adapter, builder, session_log, property_data, datafile_sha, force, id_,
                   chunk_skip, line_count, i, data, primary_key_set, lines_dropped,
                   malformed_lines, sessid, history>>

\* Lines 533-550: store last_chunk in the session record, empty the buffer,
\* go to the next row.
UpdateSession ==
    /\ pc = "upd_session"
    /\ session_log' = update_session_log(session_log, sessid, chunk_count)
    /\ data' = << >>
    /\ i' = i + 1
    /\ pc' = IF limit_reached(i) THEN "break" ELSE "loop"
    /\ UNCHANGED <<config, backend, adapter, builder, metadata, property_data, datafile_sha, force, id_, chunk_skip,
                   chunk_count, line_count, primary_key_set, lines_dropped,
                   malformed_lines, sessid, history>>

\* Lines 560-562: the rows are exhausted or the loop was left at the line
\* limit, the rest of the buffer is written.
FinalWrite ==
    /\ \/ pc = "loop" /\ i = Len(files[datafile_sha])
       \/ pc = "break"
    /\ property_data' = write_whatever(property_data, datafile_sha, data)
    /\ pc' = "finish"
    /\ UNCHANGED <<config, backend, adapter, builder, metadata, session_log, locals, history>>

\* Lines 582-610: the final write to the metadata table and the return.
Finish ==
    /\ pc = "finish"
    /\ LET actual_id == get_current_sequencenumber(metadata)
       IN  metadata' = update_metadata(metadata, actual_id, datafile_sha, "Complete",
                                       chunk_count)
    /\ outcome' = "Completed"
    /\ completed' = completed \cup {datafile_sha}
    /\ Forget
    /\ UNCHANGED <<config, backend, adapter, builder, session_log, property_data, called, before, attempted, dirty>>

\* The process is killed between two store calls.
Kill ==
    /\ pc # "idle"
    /\ outcome' = "killed"
    /\ before' = <<metadata, session_log>>
    /\ dirty' = IF pc = "upd_meta" \/ (pc = "finish" /\ data # << >>)
                THEN dirty \cup {datafile_sha} ELSE dirty
    /\ Forget
    /\ UNCHANGED <<config, backend, adapter, builder, store, called, attempted, completed>>

Next ==
    \/ \E sha \in Shas, f \in BOOLEAN : AlreadyDone(sha, f)
    \/ \E sha \in Shas, f \in BOOLEAN : Start(sha, f)
    \/ InitMetadata
    \/ InitSession
    \/ LoopRow
    \/ WriteChunk
    \/ UpdateMetadata
    \/ UpdateSession
    \/ FinalWrite
    \/ Finish
    \/ Kill

Spec == Init /\ [][Next]_vars

\* Loads in test mode of plain files, with and without the chaos monkey and
\* a line limit.
InitTest ==
    /\ files \in { [A |-> a, B |-> SecondFile] : a \in PlainInputs(MaxTestLen) }
    /\ chunk_size \in 1..MaxChunk
    /\ autoinc \in BOOLEAN
    /\ mode = "test"
    /\ chaos_monkey \in BOOLEAN
    /\ test_line_limit \in (1..MaxLimit) \cup {DefaultLimit}
    /\ db_given = [kind |-> "str", db_type |-> "", name |-> <<"data", ".sqlite">>]
    /\ NewStore
    /\ NoAdapter
    /\ NoBuilder

SpecTest == InitTest /\ [][Next]_vars

\* Loads in production mode of files with a row the rowmaker or the store
\* fails on.
InitFaults ==
    /\ files \in { [A |-> a, B |-> SecondFile] : a \in FaultyInputs(MaxLen) }
    /\ chunk_size \in 1..MaxChunk
    /\ autoinc \in BOOLEAN
    /\ mode = "production"
    /\ chaos_monkey = FALSE
    /\ test_line_limit = DefaultLimit
    /\ db_given = [kind |-> "str", db_type |-> "", name |-> <<"data", ".sqlite">>]
    /\ NewStore
    /\ NoAdapter
    /\ NoBuilder

SpecFaults == InitFaults /\ [][Next]_vars

\* The records of the first n rows of file A in an empty target.
FirstRows(n) == [ row \in { <<"A", j>> : j \in 1..n } |-> 1 ]

\* What a load of the plain file A leaves in a new store when it is killed
\* after k chunk commits (and, with unlogged = 1, after the write of the next
\* chunk and before its metadata update), or when it returns "Completed"
\* (k = -1).
Leftovers ==
    LET n == Len(files["A"])
        full == n \div chunk_size
        left(status, count, rows, how, found, done, unlogged) ==
            [metadata |-> { [SequenceNumber |-> 1, datafile_sha |-> "A",
                             status |-> status, chunk_count |-> count] },
             session_log |-> { [ID |-> 1, datafile_sha |-> "A",
                                first_chunk |-> 0, last_chunk |-> count] },
             property_data |-> FirstRows(rows),
             outcome |-> how, found |-> found, completed |-> done,
             dirty |-> unlogged]
    IN  { left("Started", p[1], (p[1] + p[2]) * chunk_size, "killed", TRUE, {},
               IF p[2] = 1 THEN {"A"} ELSE {}) :
              p \in { q \in (0..full) \X (0..1) : q[1] + q[2] <= full } }
          \cup { left("Complete", full, n, "Completed", FALSE, {"A"}, {}) }

\* Calls of do_etl on a store that holds the progress of an earlier load of
\* file A, partial or complete.
InitForce ==
    /\ files \in { [A |-> a, B |-> SecondFile] : a \in PlainInputs(MaxLen) }
    /\ chunk_size \in 1..MaxChunk
    /\ autoinc \in BOOLEAN
    /\ mode = "production"
    /\ chaos_monkey = FALSE
    /\ test_line_limit = DefaultLimit
    /\ db_given = [kind |-> "str", db_type |-> "", name |-> <<"data", ".sqlite">>]
    /\ db_resolved = Unresolved
    /\ catalog = NoTables
    /\ configured = NotConfigured
    /\ \E l \in Leftovers :
           /\ metadata = l.metadata
           /\ session_log = l.session_log
           /\ property_data = l.property_data
           /\ outcome = l.outcome
           /\ before = IF l.found THEN <<l.metadata, l.session_log>> ELSE <<{}, {}>>
           /\ completed = l.completed
           /\ dirty = l.dirty
    /\ called = "A"
    /\ attempted = {"A"}
    /\ pc = "idle"
    /\ NoLocals
    /\ NoAdapter
    /\ NoBuilder

SpecForce == InitForce /\ [][Next]_vars

\* Lines 204-242 of do_etl: the db_config of the mode.
ResolveConfig ==
    /\ db_resolved = Unresolved
    /\ LET cfg == IF mode = "test" THEN test_config(db_given) ELSE db_given
       IN  db_resolved' = IF cfg = TypeError THEN TypeError ELSE normalise_config(cfg)
    /\ UNCHANGED <<config, adapter, builder, db_given, catalog, configured, store, pc, locals, history>>

\* configure_db(db_config, db_fields, tables=tabs, force=f)
ConfigureDb(tabs, f) ==
    /\ db_resolved.kind = "dict"
    /\ catalog' = configure_db(catalog, db_resolved.db_type, tabs, f)
    /\ configured' = [tables |-> tabs, force |-> f, before |-> catalog]
    /\ UNCHANGED <<config, adapter, builder, db_given, db_resolved, store, pc, locals, history>>

\* write_to_db of one row to a table of the store.
WriteToDb(t, r) ==
    /\ db_resolved.kind = "dict"
    /\ t \in DOMAIN catalog
    /\ r \notin catalog[t]
    /\ catalog' = [catalog EXCEPT ![t] = @ \cup {r}]
    /\ configured' = NotConfigured
    /\ UNCHANGED <<config, adapter, builder, db_given, db_resolved, store, pc, locals, history>>

NextStore ==
    \/ ResolveConfig
    \/ \E tabs \in (SUBSET TableNames) \ {{}}, f \in BOOLEAN : ConfigureDb(tabs, f)
    \/ \E t \in TableNames, r \in 1..MaxRows : WriteToDb(t, r)

\* Any db_config in either mode, and the calls that set up and fill its
\* store.
InitStore ==
    /\ files = [A |-> <<1>>, B |-> SecondFile]
    /\ chunk_size = 1
    /\ autoinc = FALSE
    /\ mode \in {"production", "test"}
    /\ chaos_monkey = FALSE
    /\ test_line_limit = DefaultLimit
    /\ db_given \in Configs
    /\ NewStore
    /\ NoAdapter
    /\ NoBuilder

SpecStore == InitStore /\ [][NextStore]_vars

\* ------------------------------------------------------------- update_to_db on its own
\* most rows of the data of one adapter call
MaxBatch == 2

\* Tables like the one of test_update_to_db_no_nones, the text column in
\* numbers: two records, UPRN 1 and 2.
TestTables ==
    { { [UPRN |-> 1, PropertyID |-> p1, Addr1 |-> a1],
        [UPRN |-> 2, PropertyID |-> p2, Addr1 |-> a2] } :
          p1 \in 1..2, p2 \in 1..2, a1 \in 2..3, a2 \in 2..3 }

\* The db_fields and key arguments tried: the key of the table, both fields
\* as the key, and a key that is not unique.
UpdateArgs ==
    { [db_fields |-> <<"Addr1", "PropertyID", "UPRN">>, key |-> {"UPRN"}],
      [db_fields |-> <<"Addr1", "PropertyID", "UPRN">>, key |-> {"PropertyID", "UPRN"}],
      [db_fields |-> <<"Addr1", "PropertyID">>, key |-> {"PropertyID"}] }

\* The values a row may give to a field.
UpdateValues(f) == IF f = "UPRN" THEN {None, 1, 2} ELSE {None, 1}

UpdateRows(db_fields) ==
    { row \in [1..Len(db_fields) -> {None, 1, 2}] :
          \A j \in 1..Len(db_fields) : row[j] \in UpdateValues(db_fields[j]) }

UpdateToDb(rows, args) ==
    /\ call = NoCall
    /\ call' = [op |-> "update_to_db", data |-> rows, db_fields |-> args.db_fields,
                key |-> args.key, before |-> test]
    /\ test' = update_to_db(test, rows, args.db_fields, args.key)
    /\ UNCHANGED <<config, backend, reading, builder, store, pc, locals, history>>

NextUpdate ==
    \E args \in UpdateArgs :
        \E rows \in UNION { [1..n -> UpdateRows(args.db_fields)] : n \in 1..MaxBatch } :
            UpdateToDb(rows, args)

\* A table of two records, and one update of it.
InitUpdate ==
    /\ files = [A |-> <<1>>, B |-> SecondFile]
    /\ chunk_size = 1
    /\ autoinc = FALSE
    /\ mode = "production"
    /\ chaos_monkey = FALSE
    /\ test_line_limit = DefaultLimit
    /\ db_given = [kind |-> "str", db_type |-> "", name |-> <<"data", ".sqlite">>]
    /\ NewStore
    /\ NoBuilder
    /\ test \in TestTables
    /\ call = NoCall
    /\ reading = NoCall

SpecUpdate == InitUpdate /\ [][NextUpdate]_vars

\* ------------------------------------------------------------- write_to_db on its own
\* Files whose rows all make a record, some of them refused by the table.
RecordInputs ==
    UNION { [1..n -> (1..MaxLen) \cup {Refused}] : n \in 1..MaxLen }

\* write_to_db(data, ..., whatever=w) of the records of the first rows of
\* file A.
WriteBatch(rows, w) ==
    /\ BagCardinality(property_data) < MaxLen
    /\ LET written == write_to_db(property_data, "A", rows, w)
       IN  /\ property_data' = written.table
           /\ call' = [op |-> "write_to_db", data |-> rows, whatever |-> w,
                       before |-> property_data, rejected |-> written.rejected,
                       raised |-> written.raised]
    /\ UNCHANGED <<config, backend, test, reading, builder, metadata, session_log, pc,
                   locals, history>>

NextWrite ==
    \E m \in 1..Len(files["A"]), w \in BOOLEAN : WriteBatch([j \in 1..m |-> j], w)

\* An empty target table, with a key of the caller or one of the store.
InitWrite ==
    /\ files \in { [A |-> a, B |-> SecondFile] : a \in RecordInputs }
    /\ chunk_size = 1
    /\ autoinc \in BOOLEAN
    /\ mode = "production"
    /\ chaos_monkey = FALSE
    /\ test_line_limit = DefaultLimit
    /\ db_given = [kind |-> "str", db_type |-> "", name |-> <<"data", ".sqlite">>]
    /\ NewStore
    /\ NoAdapter
    /\ NoBuilder

SpecWrite == InitWrite /\ [][NextWrite]_vars

\* ------------------------------------------------------------- read_db
\* most read_db calls on one store
MaxReads == 2

\* err_wait, seconds
ErrWait == 30

\* What a connection and the execution of the query may end in: the rows, or
\* an exception of the driver.  pymysql raises pymysql.Error, with
\* CR_CONN_HOST_ERROR as its first argument when the host cannot be reached;
\* sqlite3 raises sqlite3.OperationalError.
Outcomes(db_type) ==
    IF db_type = "sqlite" THEN {"ok", "sqlite3.OperationalError"}
    ELSE {"ok", "CR_CONN_HOST_ERROR", "pymysql.Error"}

\* An except clause that sleeps and tries again whatever the error.
retry_always(fault) == "retry"

\* The except clauses of read_db, lines 420-436.
on_error(fault) ==
    IF fault = "CR_CONN_HOST_ERROR" THEN "retry" ELSE "raise"

\* read_db(sql_query, db_config), lines 409-414, for a query that selects the
\* rows of table t.
ReadDb(t) ==
    /\ db_resolved.kind = "dict"
    /\ IF reading.op = "none" THEN TRUE ELSE reading.pc = "done"
    /\ IF call.op = "none" THEN TRUE ELSE call.reads < MaxReads
    /\ t \in DOMAIN catalog
    /\ call' = [op |-> "read_db", reads |-> IF call.op = "none" THEN 1 ELSE call.reads + 1]
    /\ reading' = [op |-> "read_db", table |-> t, pc |-> "try", faults |-> << >>,
                   slept |-> 0, result |-> "", rows |-> {}]
    /\ UNCHANGED <<config, backend, test, builder, store, pc, locals, history>>

\* Lines 416-419, and 420-436 when they raise.
Execute(outcome_) ==
    /\ reading.op = "read_db" /\ reading.pc = "try"
    /\ reading' =
         IF outcome_ = "ok"
         THEN [reading EXCEPT !.pc = "done", !.result = "returned",
                              !.rows = catalog[reading.table]]
         ELSE IF on_error(outcome_) = "retry"
         THEN [reading EXCEPT !.pc = "sleep", !.faults = Append(@, outcome_)]
         ELSE [reading EXCEPT !.pc = "done", !.result = outcome_,
                              !.faults = Append(@, outcome_)]
    /\ UNCHANGED <<config, backend, test, call, builder, store, pc, locals, history>>

\* Line 427: time.sleep(err_wait).
Backoff ==
    /\ reading.op = "read_db" /\ reading.pc = "sleep"
    /\ reading' = [reading EXCEPT !.pc = "retry", !.slept = @ + ErrWait]
    /\ UNCHANGED <<config, backend, test, call, builder, store, pc, locals, history>>

\* Lines 428-430, inside the except clause: what they raise leaves read_db.
Retry(outcome_) ==
    /\ reading.op = "read_db" /\ reading.pc = "retry"
    /\ reading' =
         IF outcome_ = "ok"
         THEN [reading EXCEPT !.pc = "done", !.result = "returned",
                              !.rows = catalog[reading.table]]
         ELSE [reading EXCEPT !.pc = "done", !.result = outcome_,
                              !.faults = Append(@, outcome_)]
    /\ UNCHANGED <<config, backend, test, call, builder, store, pc, locals, history>>

\* The store is set up and filled, then read.
Reading == reading.op = "read_db"

NextRead ==
    \/ ResolveConfig
    \/ ~Reading /\ \E tabs \in {{"property_data"}, {"metadata"}}, f \in BOOLEAN :
                       ConfigureDb(tabs, f)
    \/ ~Reading /\ \E t \in TableNames, r \in 1..MaxRows : WriteToDb(t, r)
    \/ \E t \in TableNames : ReadDb(t)
    \/ \E o \in Outcomes(db_resolved.db_type) : Execute(o)
    \/ Backoff
    \/ \E o \in Outcomes(db_resolved.db_type) : Retry(o)

\* A sqlite store and a MySQL one.
InitRead ==
    /\ files = [A |-> <<1>>, B |-> SecondFile]
    /\ chunk_size = 1
    /\ autoinc = FALSE
    /\ mode = "production"
    /\ chaos_monkey = FALSE
    /\ test_line_limit = DefaultLimit
    /\ db_given \in { [kind |-> "str", db_type |-> "", name |-> <<"data", ".sqlite">>],
                      [kind |-> "dict", db_type |-> "mysql", name |-> <<"data">>] }
    /\ NewStore
    /\ NoAdapter
    /\ NoBuilder

SpecRead == InitRead /\ [][NextRead]_vars

\* ------------------------------------------------------------- the parallel chunk builder
\* build_cache and updater of src/ihutilities/parallel_build_cache.py, with
\* one constructor (id_ = 0) and, further down, with several.  A key is a
\* number: k > 0 makes one row, whose columns 1 and 2 hold the key; BlankKey
\* is '' or None; NoRowKey is a key for which make_row_method returns an
\* empty list.  The constructors have key generators that give the same
\* keys and row methods that make different rows.

\* most keys of the key generator
MaxKeys == 3
\* most build_cache invocations on one store
MaxRuns == 2

\* Line 157: the chunk_log list is written every so many rows.
BatchRows == 1000

\* The keys first..last.
Keys(first, last) == [k \in 1..(last - first + 1) |-> first + k - 1]

\* list(key_method(chunk_size)) for a generator of n keys: chunks of
\* chunk_size keys, the last one of what is left.
KeyChunks(n, size) ==
    [c \in 1..((n + size - 1) \div size) |->
        Keys((c - 1) * size + 1, IF c * size < n THEN c * size ELSE n)]

\* A key that is '' or None, and a key that has no row.
BlankKey == 0
NoRowKey == -1

\* Chunk number c (0-based, as enumerate gives it).
ChunkNumbers == 0..(Len(key_chunks) - 1)

\* make_row_method(key) of constructor s, line 273: a row that no other
\* constructor makes, and the key in columns 1 and 2 of a row.
RowStride == MaxKeys + 1
row_of(s, key) == s * RowStride + key
key_of(row) == row % RowStride

\* make_modelled_rows_block(make_row_method, keys), lines 263-289, for
\* constructor s: the rows of the keys of chunk c in their order, none for a
\* blank key (266-268) and none for a key without a row (277-278).
stage_rows_block(s, c) ==
    LET keys == key_chunks[c + 1]
        RECURSIVE data_rows(_)
        data_rows(k) ==
            IF k > Len(keys) THEN << >>
            ELSE IF keys[k] = BlankKey \/ keys[k] = NoRowKey THEN data_rows(k + 1)
            ELSE <<row_of(s, keys[k])>> \o data_rows(k + 1)
    IN  data_rows(1)

\* The result of the future of chunk c in the updater call of constructor
\* id_.
rows_block(c) == stage_rows_block(id_, c)

\* The rows of chunk c, as a set.
RowsOf(c) == { rows_block(c)[k] : k \in 1..Len(rows_block(c)) }

\* keys[0][0] and keys[0][1], lines 153-154 and 209-210: subscripting the
\* first key raises when it is '' (IndexError) or None (TypeError).
first_key(c) == key_chunks[c + 1][1]
first_key_raises(c) == first_key(c) = BlankKey

\* chunk_lookup after the launch loop, line 211: the first key of every
\* chunk dispatched, with the number of the last chunk that begins with it.
chunk_lookup ==
    [ key \in { first_key(c) : c \in DOMAIN futures } |->
          Max({ c \in DOMAIN futures : first_key(c) = key }) ]

\* check_stage_status, lines 299-311: the status of the records that carry
\* the function names of constructor s, which are the records written with
\* SequenceNumber s (87).
check_stage_status(table, s) ==
    LET result == { r \in table : r.SequenceNumber = s }
    IN  IF Cardinality(result) = 1 THEN (CHOOSE r \in result : TRUE).status
        ELSE "Not started"

\* Line 157, "(i != 0) & (i % 1000) == 0": & binds tighter than ==, so the
\* test is ((i != 0) & (i % 1000)) == 0, true at i = 0 and at every i with
\* an even i % 1000.
flush_due(j) ==
    (IF j # 0 THEN (j % BatchRows) % 2 ELSE 0) = 0

\* The last chunk number of the batch of chunk_log rows that starts at j.
BatchEnd(j) ==
    LET last == Len(key_chunks) - 1
        due == { k \in j..last : flush_due(k) }
    IN  IF due = {} THEN last ELSE CHOOSE k \in due : \A m \in due : k <= m

\* The chunk numbers of a bag of chunk_log rows.
NumbersIn(bag) == BagToSet(bag)

\* A delete without a where clause.
delete_every_chunk(table, c) == EmptyBag

\* delete from chunk_log where chunk_number = c
delete_from_chunk_log(table, c) ==
    [x \in (DOMAIN table) \ {c} |-> table[x]]

\* A worker that writes the rows it has made.
write_rows_block(table, c) == table (+) SetToBag(RowsOf(c))

\* make_modelled_rows_block, lines 263-289, as the target table sees it: the
\* worker builds the rows and returns them, it writes nothing.
make_modelled_rows_block(table, c) == table

\* The process ends: the futures and the lists of updater go with it.
ForgetBuilder ==
    /\ Forget
    /\ todo_chunk_list' = EmptyBag
    /\ futures' = << >>
    /\ chunk_loc' = 0
    /\ n_chunks_received' = 0

\* An exception ends the run at chunk c.  (called, outcome: the chunk and
\* the exception.)
Raise(exception, c) ==
    /\ ForgetBuilder
    /\ called' = c
    /\ outcome' = exception
    /\ UNCHANGED <<before, attempted, completed, dirty>>

\* build_cache, lines 72-93: the stage is skipped when it is complete, and
\* gets its metadata record when it has not started.  (before: the tables
\* metadata, session_log, chunk_log and property_data as the invocation
\* finds them.)
BuildCache ==
    /\ pc = "idle"
    /\ runs < MaxRuns
    /\ runs' = runs + 1
    /\ LET stage_status == check_stage_status(metadata, 0)
       IN  /\ metadata' =
                 IF stage_status = "Not started"
                 THEN metadata \cup { [SequenceNumber |-> 0, status |-> "Started",
                                       line_count |-> 0, chunk_count |-> 0] }
                 ELSE metadata
           /\ pc' = IF stage_status = "Complete" THEN "idle" ELSE "count"
    /\ before' = <<metadata, session_log, chunk_log, property_data>>
    /\ called' = ""
    /\ outcome' = "running"
    /\ UNCHANGED <<config, backend, adapter, key_chunks, chunk_log, todo_chunk_list,
                   futures, chunk_loc, n_chunks_received, session_log, property_data,
                   locals, attempted, completed, dirty>>

\* updater, lines 119-149 and 166-175: the chunk list of the run is read from
\* chunk_log when property_data has rows.
CountDone ==
    /\ pc = "count"
    /\ UNCHANGED id_
    /\ chunk_count' = 0
    /\ line_count' = 0
    /\ i' = 0
    /\ IF BagCardinality(property_data) = 0
       THEN /\ pc' = "chunk_log"
            /\ UNCHANGED <<todo_chunk_list, chunk_skip>>
       ELSE /\ todo_chunk_list' = chunk_log
            /\ chunk_skip' = Len(key_chunks) - BagCardinality(chunk_log)
            /\ pc' = "session"
    /\ UNCHANGED <<config, backend, adapter, key_chunks, chunk_log, futures, chunk_loc,
                   n_chunks_received, runs, store, datafile_sha, force, data,
                   primary_key_set, lines_dropped, malformed_lines, sessid, history>>

\* Lines 150-165 and 172-175: one write_to_db of chunk_log rows, and after the
\* last one the chunk list of the run is every chunk.  A chunk whose first
\* key cannot be subscripted (153) ends the run before the rows gathered
\* since the last write are written.
WriteChunkLog ==
    /\ pc = "chunk_log"
    /\ LET last == BatchEnd(i)
           blank == { c \in i..last : first_key_raises(c) }
       IN  IF blank # {}
           THEN /\ Raise("IndexError", CHOOSE c \in blank : \A d \in blank : c <= d)
                /\ UNCHANGED chunk_log
           ELSE /\ chunk_log' = chunk_log (+) [c \in i..last |-> 1]
                /\ i' = last + 1
                /\ IF last = Len(key_chunks) - 1
                   THEN /\ todo_chunk_list' = [c \in ChunkNumbers |-> 1]
                        /\ chunk_skip' = 0
                        /\ pc' = "session"
                   ELSE UNCHANGED <<todo_chunk_list, chunk_skip, pc>>
                /\ UNCHANGED <<futures, chunk_loc, n_chunks_received, datafile_sha,
                               force, id_, chunk_count, line_count, data,
                               primary_key_set, lines_dropped, malformed_lines, sessid,
                               history>>
    /\ UNCHANGED <<config, backend, adapter, key_chunks, runs, store>>

\* Lines 177-185: the session_log record of the run.
LogSession ==
    /\ pc = "session"
    /\ LET written == session_log \cup
                        { [ID |-> new_sessid(session_log), first_chunk |-> chunk_skip,
                           last_chunk |-> chunk_skip] }
       IN  /\ session_log' = written
           /\ sessid' = Max({ r.ID : r \in written })
    /\ pc' = "launch"
    /\ UNCHANGED <<config, backend, adapter, builder, metadata, property_data,
                   datafile_sha, force, id_, chunk_skip, chunk_count, line_count, i, data,
                   primary_key_set, lines_dropped, malformed_lines, history>>

\* Lines 189-223: a future for every chunk of the chunk list, none for the
\* others; chunk_count counts the futures.  A chunk of the list whose first
\* key cannot be subscripted (209) ends the run before a result is collected.
Launch ==
    /\ pc = "launch"
    /\ LET todo == { c \in ChunkNumbers : c \in NumbersIn(todo_chunk_list) }
           blank == { c \in todo : first_key_raises(c) }
       IN  IF blank # {}
           THEN Raise("IndexError", CHOOSE c \in blank : \A d \in blank : c <= d)
           ELSE /\ futures' = [c \in todo |-> "submitted"]
                /\ chunk_count' = Cardinality(todo)
                /\ n_chunks_received' = 0
                /\ pc' = "collect"
                /\ UNCHANGED <<todo_chunk_list, chunk_loc, datafile_sha, force, id_,
                               chunk_skip, line_count, i, data, primary_key_set,
                               lines_dropped, malformed_lines, sessid, history>>
    /\ UNCHANGED <<config, backend, adapter, key_chunks, chunk_log, runs, store>>

\* A worker of the dask client finishes make_modelled_rows_block for a chunk.
MakeBlock(c) ==
    /\ c \in DOMAIN futures
    /\ futures[c] = "submitted"
    /\ futures' = [futures EXCEPT ![c] = "built"]
    /\ property_data' = make_modelled_rows_block(property_data, c)
    /\ UNCHANGED <<config, backend, adapter, key_chunks, chunk_log, todo_chunk_list,
                   chunk_loc, n_chunks_received, runs, metadata, session_log, pc, locals,
                   history>>

\* Lines 224-232: as_completed hands over the result of a finished future,
\* and the chunk number is looked up under columns 1 and 2 of its first row.
\* data[0] raises IndexError when the result has no row (228); the lookup
\* raises KeyError when the first row is not the row of the first key of a
\* chunk (230).
Receive(c) ==
    /\ pc = "collect"
    /\ c \in DOMAIN futures
    /\ futures[c] = "built"
    /\ LET result == rows_block(c)
       IN  IF result = << >>
           THEN Raise("IndexError", c)
           ELSE IF key_of(Head(result)) \notin DOMAIN chunk_lookup
           THEN Raise("KeyError", c)
           ELSE /\ futures' = [futures EXCEPT ![c] = "received"]
                /\ n_chunks_received' = n_chunks_received + 1
                /\ data' = result
                /\ line_count' = line_count + Len(result)
                /\ chunk_loc' = chunk_lookup[key_of(Head(result))]
                /\ pc' = "insert"
                /\ UNCHANGED <<todo_chunk_list, datafile_sha, force, id_, chunk_skip,
                               chunk_count, i, primary_key_set, lines_dropped,
                               malformed_lines, sessid, history>>
    /\ UNCHANGED <<config, backend, adapter, key_chunks, chunk_log, runs, store>>

\* An insert that leaves out the rows the table holds.
insert_new_rows(table, rows) ==
    table (+) SetToBag({ k \in rows : ~BagIn(k, table) })

\* INSERT INTO property_data of the rows of a result.
insert_rows(table, rows) == table (+) SetToBag(rows)

\* Lines 234-235: write_to_db of the rows of the result, strict; it raises
\* IntegrityError when the target has a key of the caller's and holds one of
\* the rows.  (called, outcome: the chunk and the exception that ended the
\* run.)
InsertBatch ==
    /\ pc = "insert"
    /\ LET rows == { data[k] : k \in 1..Len(data) }
       IN  IF ~autoinc /\ \E k \in rows : BagIn(k, property_data)
           THEN /\ ForgetBuilder
                /\ called' = chunk_loc
                /\ outcome' = "IntegrityError"
                /\ UNCHANGED property_data
           ELSE /\ property_data' = insert_rows(property_data, rows)
                /\ pc' = "upd_chunk_count"
                /\ UNCHANGED <<todo_chunk_list, futures, chunk_loc, n_chunks_received,
                               locals, called, outcome>>
    /\ UNCHANGED <<config, backend, adapter, key_chunks, chunk_log, runs, metadata,
                   session_log, before, attempted, completed, dirty>>

\* Line 237: chunk_count goes to the metadata record of the stage.
UpdateChunkCount ==
    /\ pc = "upd_chunk_count"
    /\ metadata' = update_chunk_count(metadata, id_, chunk_count)
    /\ pc' = "upd_last_chunk"
    /\ UNCHANGED <<config, backend, adapter, builder, session_log, property_data, locals,
                   history>>

\* Lines 239-240: last_chunk goes to the session_log record of the run.
UpdateLastChunk ==
    /\ pc = "upd_last_chunk"
    /\ session_log' = update_session_log(session_log, sessid, n_chunks_received + chunk_skip)
    /\ pc' = "delete"
    /\ UNCHANGED <<config, backend, adapter, builder, metadata, property_data, locals,
                   history>>

\* Lines 241-243: the chunk_log rows of the chunk are deleted.
DeleteFromChunkLog ==
    /\ pc = "delete"
    /\ chunk_log' = delete_from_chunk_log(chunk_log, chunk_loc)
    /\ pc' = "collect"
    /\ UNCHANGED <<config, backend, adapter, key_chunks, todo_chunk_list, futures,
                   chunk_loc, n_chunks_received, runs, store, locals, history>>

\* Lines 261 and 98-108: every future was received, updater returns and
\* build_cache marks the stage complete.
FinalReport ==
    /\ pc = "collect"
    /\ \A c \in DOMAIN futures : futures[c] = "received"
    /\ metadata' = { IF r.SequenceNumber = id_
                     THEN [r EXCEPT !.status = "Complete",
                                    !.line_count = line_count + chunk_skip * chunk_size]
                     ELSE r : r \in metadata }
    /\ ForgetBuilder
    /\ UNCHANGED <<config, backend, adapter, key_chunks, chunk_log, runs, session_log,
                   property_data, history>>

\* The process is killed, or an exception ends it, between two store calls.
Crash ==
    /\ pc # "idle"
    /\ ForgetBuilder
    /\ UNCHANGED <<config, backend, adapter, key_chunks, chunk_log, runs, store, history>>

NextBuilder ==
    \/ BuildCache
    \/ CountDone
    \/ WriteChunkLog
    \/ LogSession
    \/ Launch
    \/ \E c \in ChunkNumbers : MakeBlock(c)
    \/ \E c \in ChunkNumbers : Receive(c)
    \/ InsertBatch
    \/ UpdateChunkCount
    \/ UpdateLastChunk
    \/ DeleteFromChunkLog
    \/ FinalReport
    \/ Crash

\* A new store, a key generator and a chunk size; the target has a key of
\* the caller's (~autoinc) or none.
InitBuilder ==
    /\ files = [A |-> <<1>>, B |-> SecondFile]
    /\ chunk_size \in 1..MaxChunk
    /\ autoinc \in BOOLEAN
    /\ mode = "production"
    /\ chaos_monkey = FALSE
    /\ test_line_limit = DefaultLimit
    /\ db_given = [kind |-> "str", db_type |-> "", name |-> <<"data", ".sqlite">>]
    /\ NewStore
    /\ NoAdapter
    /\ key_chunks \in { KeyChunks(n, chunk_size) : n \in 1..MaxKeys }
    /\ chunk_log = EmptyBag
    /\ todo_chunk_list = EmptyBag
    /\ futures = << >>
    /\ chunk_loc = 0
    /\ n_chunks_received = 0
    /\ runs = 0

SpecBuilder == InitBuilder /\ [][NextBuilder]_vars

\* The keys of a key generator, cut into chunks of size keys as
\* key_method(chunk_size) cuts them.
ChunksOf(keys, size) ==
    [c \in 1..((Len(keys) + size - 1) \div size) |->
        SubSeq(keys, (c - 1) * size + 1,
               IF c * size < Len(keys) THEN c * size ELSE Len(keys))]

\* Key generators of n keys with one key out of the ordinary: a blank key,
\* a key that has no row, or a key that comes a second time.
OddKeys(n) ==
    { [Keys(1, n) EXCEPT ![p] = odd] :
          p \in 1..n, odd \in {BlankKey, NoRowKey} }
        \cup { [Keys(1, n) EXCEPT ![p] = 1] : p \in 2..n }

\* A new store and a key generator with a key out of the ordinary.
InitBlocks ==
    /\ files = [A |-> <<1>>, B |-> SecondFile]
    /\ chunk_size \in 1..MaxChunk
    /\ autoinc \in BOOLEAN
    /\ mode = "production"
    /\ chaos_monkey = FALSE
    /\ test_line_limit = DefaultLimit
    /\ db_given = [kind |-> "str", db_type |-> "", name |-> <<"data", ".sqlite">>]
    /\ NewStore
    /\ NoAdapter
    /\ \E n \in 1..MaxKeys : \E keys \in OddKeys(n) :
           key_chunks = ChunksOf(keys, chunk_size)
    /\ chunk_log = EmptyBag
    /\ todo_chunk_list = EmptyBag
    /\ futures = << >>
    /\ chunk_loc = 0
    /\ n_chunks_received = 0
    /\ runs = 0

SpecBlocks == InitBlocks /\ [][NextBuilder]_vars

\* ------------------------------------------------------------- build_cache with several constructors
\* most constructors of one build_cache call
MaxStages == 2

\* build_cache, lines 57-78: the call begins with the first constructor.
BuildStages ==
    /\ pc = "idle"
    /\ runs < MaxRuns
    /\ runs' = runs + 1
    /\ pc' = "stage"
    /\ before' = <<metadata, session_log, chunk_log, property_data>>
    /\ called' = ""
    /\ outcome' = "running"
    /\ UNCHANGED <<config, backend, adapter, key_chunks, chunk_log, todo_chunk_list,
                   futures, chunk_loc, n_chunks_received, store, locals, attempted,
                   completed, dirty>>

\* Line 79: the loop goes on with the next constructor, and build_cache
\* returns after the last one.
NextConstructor ==
    /\ IF id_ + 1 < MaxStages
       THEN /\ id_' = id_ + 1
            /\ pc' = "stage"
       ELSE /\ id_' = 0
            /\ pc' = "idle"
    /\ todo_chunk_list' = EmptyBag
    /\ futures' = << >>
    /\ chunk_loc' = 0
    /\ n_chunks_received' = 0
    /\ chunk_skip' = 0
    /\ chunk_count' = 0
    /\ line_count' = 0
    /\ i' = 0
    /\ data' = << >>
    /\ sessid' = 0
    /\ UNCHANGED <<datafile_sha, force, primary_key_set, lines_dropped, malformed_lines>>

\* Lines 79-93: a constructor whose stage is complete is passed over, one
\* that has not started gets its metadata record, and updater is called for
\* the others.
EnterStage ==
    /\ pc = "stage"
    /\ LET stage_status == check_stage_status(metadata, id_)
       IN  IF stage_status = "Complete"
           THEN /\ NextConstructor
                /\ UNCHANGED metadata
           ELSE /\ metadata' =
                      IF stage_status = "Not started"
                      THEN metadata \cup { [SequenceNumber |-> id_, status |-> "Started",
                                            line_count |-> 0, chunk_count |-> 0] }
                      ELSE metadata
                /\ pc' = "count"
                /\ UNCHANGED <<todo_chunk_list, futures, chunk_loc, n_chunks_received,
                               locals>>
    /\ UNCHANGED <<config, backend, adapter, key_chunks, chunk_log, runs, session_log,
                   property_data, history>>

\* Lines 261 and 98-108: every future was received, updater returns,
\* build_cache marks the stage complete and goes on with the loop.
StageReport ==
    /\ pc = "collect"
    /\ \A c \in DOMAIN futures : futures[c] = "received"
    /\ metadata' = { IF r.SequenceNumber = id_
                     THEN [r EXCEPT !.status = "Complete",
                                    !.line_count = line_count + chunk_skip * chunk_size]
                     ELSE r : r \in metadata }
    /\ NextConstructor
    /\ UNCHANGED <<config, backend, adapter, key_chunks, chunk_log, runs, session_log,
                   property_data, history>>

NextStages ==
    \/ BuildStages
    \/ EnterStage
    \/ CountDone
    \/ WriteChunkLog
    \/ LogSession
    \/ Launch
    \/ \E c \in ChunkNumbers : MakeBlock(c)
    \/ \E c \in ChunkNumbers : Receive(c)
    \/ InsertBatch
    \/ UpdateChunkCount
    \/ UpdateLastChunk
    \/ DeleteFromChunkLog
    \/ StageReport
    \/ Crash

SpecStages == InitBuilder /\ [][NextStages]_vars

\* ------------------------------------------------------------- vocabulary of the properties
Rows(sha) == 1..Len(files[sha])
ValidRows(sha) == { j \in Rows(sha) : files[sha][j] # Malformed }
NoDuplicateKeys(sha) ==
    \A j, k \in ValidRows(sha) : files[sha][j] = files[sha][k] => j = k
NoMalformedRows(sha) == ValidRows(sha) = Rows(sha)

\* The records of one file in the target table.
TargetOf(sha) ==
    LET mine == { row \in BagToSet(property_data) : row[1] = sha }
    IN  [ row \in mine |-> property_data[row] ]
TargetCount(sha) == BagCardinality(TargetOf(sha))

\* What one uninterrupted load of the file leaves in an empty target: one
\* record per well-formed row, the first one of each key when keys are
\* supplied by the caller.
Uninterrupted(sha) ==
    LET kept == { j \in ValidRows(sha) :
                    autoinc \/ \A k \in ValidRows(sha) :
                                   files[sha][k] = files[sha][j] => j <= k }
    IN  [ row \in { <<sha, j>> : j \in kept } |-> 1 ]

\* The record of input row j is in this table.
WrittenIn(table, sha, j) ==
    IF autoinc THEN BagIn(<<sha, j>>, table)
    ELSE \E row \in BagToSet(table) : KeyOf(row) = KeyOf(<<sha, j>>)

\* The record of input row j is in the target.
Written(sha, j) == WrittenIn(property_data, sha, j)

\* chunk_count stored for a content hash (0 while it has no record).
StoredChunkCount(table, sha) ==
    IF metadata_of(table, sha) = {} THEN 0
    ELSE Max({ r.chunk_count : r \in metadata_of(table, sha) })

\* The full chunks of the file whose records are all in the target.
ChunksPresent(sha) ==
    Cardinality({ c \in 1..(Len(files[sha]) \div chunk_size) :
                    \A j \in ((c - 1) * chunk_size + 1)..(c * chunk_size) :
                        Written(sha, j) })

SequenceNumbers == { r.SequenceNumber : r \in metadata }
SessionIDs(table) == { r.ID : r \in table }

\* ------------------------------------------------------------- claims

\* C1: once do_etl has returned "Completed" for a content hash, a do_etl
\* call for that hash with force=False is answered "Already done" (the
\* already-done check finds it, and no such call is ever under way), and a
\* call answered "Already done" leaves metadata and session_log as it found
\* them.
C1_AlreadyDoneIdempotent ==
    /\ pc = "idle" => \A sha \in completed : check_if_already_done(metadata, sha)
    /\ (pc # "idle" /\ ~force) => datafile_sha \notin completed
    /\ outcome = "Already done" => before = <<metadata, session_log>>

\* C2: a load of a file without duplicate keys whose earlier invocations
\* were interrupted only after full chunks had been committed (never between
\* a write and its checkpoint) does not fail on resumption, and when it
\* returns "Completed" the target holds what one uninterrupted load leaves.
C2_ResumptionExact ==
    /\ (outcome = "raised" /\ NoDuplicateKeys(called)) => called \in dirty
    /\ (outcome = "Completed" /\ NoDuplicateKeys(called) /\ called \notin dirty)
           => TargetOf(called) = Uninterrupted(called)

\* C3: the metadata table holds exactly one record for each content hash
\* that has been attempted, and none for the others.
C3_OneRecordPerHash ==
    \A sha \in Shas :
        Cardinality(metadata_of(metadata, sha)) = IF sha \in attempted THEN 1 ELSE 0

\* C4: in every state a do_etl process leaves behind (returned, raised or
\* killed), the chunk_count of each metadata record is the number of chunks
\* of its file whose rows are present in the target.  Files with malformed
\* rows or repeated keys, whose chunks do not line up with the rows, are
\* left out.
C4_ChunkCountIsChunksPresent ==
    pc = "idle" =>
        \A r \in metadata :
            (NoMalformedRows(r.datafile_sha) /\ NoDuplicateKeys(r.datafile_sha))
                => r.chunk_count = ChunksPresent(r.datafile_sha)

\* C5: the chunk_count stored for a content hash never decreases from one
\* state to the next (a force=True call, which recreates the store, apart).
C5_ChunkCountMonotonic ==
    [][ \/ pc = "idle" /\ force'
        \/ \A sha \in Shas :
             StoredChunkCount(metadata', sha) >= StoredChunkCount(metadata, sha) ]_vars

\* C6: when do_etl has returned "Completed" for a content hash, the
\* chunk_count stored for it is floor(target rows of that file / chunk_size).
C6_ChunkCountIsFloor ==
    outcome = "Completed" =>
        StoredChunkCount(metadata, called) = TargetCount(called) \div chunk_size

\* C7: no metadata record is Complete while a well-formed row of its file
\* has no record in the target: the final buffer is written before the
\* status is, in every state, also one left by a kill.  (Production mode:
\* in test mode the rows past the line limit are never read.)
C7_CompleteAfterFinalFlush ==
    \A r \in metadata :
        r.status = "Complete" =>
            \A j \in ValidRows(r.datafile_sha) : Written(r.datafile_sha, j)

\* do_etl has returned "Completed" for a file whose last rows did not fill
\* a chunk, and they are in the target.
C7_Witness ==
    /\ outcome = "Completed"
    /\ Len(files[called]) % chunk_size # 0
    /\ files[called][Len(files[called])] # Malformed
    /\ \E r \in metadata : r.datafile_sha = called /\ r.status = "Complete"
    /\ Written(called, Len(files[called]))

\* The three-row file with the first column as primary key, chunk_size 1,
\* offered with force=False to a store in which an earlier load of it was
\* killed after chunk 1 was committed (and not between a later write and its
\* checkpoint).
C8_Scenario ==
    /\ files["A"] = <<1, 2, 3>>
    /\ chunk_size = 1
    /\ ~autoinc
    /\ called = "A"
    /\ "A" \notin dirty
    /\ before[1] = { [SequenceNumber |-> 1, datafile_sha |-> "A",
                      status |-> "Started", chunk_count |-> 1] }
    /\ Cardinality(before[2]) = 1

\* C8: in that scenario the second run reads chunk_skip = 1, passes row 1
\* without buffering it, writes rows 2 and 3 without a constraint violation,
\* and ends "Completed" with 3 target rows, chunk_count 3 and status Complete.
C8_ResumeScenario ==
    C8_Scenario =>
        /\ pc \in {"session", "loop", "write", "upd_meta", "upd_session", "finish"}
               => chunk_skip = 1 /\ id_ = 1
        /\ (pc = "loop" /\ i = 1) => (data = << >> /\ line_count = 0)
        /\ pc = "write" => /\ data \in {<<2>>, <<3>>}
                           /\ write_strict(property_data, "A", data).ok
        /\ outcome = "Completed" =>
               /\ TargetOf("A") = Uninterrupted("A")
               /\ TargetCount("A") = 3
               /\ metadata = { [SequenceNumber |-> 1, datafile_sha |-> "A",
                                status |-> "Complete", chunk_count |-> 3] }

\* The resumed run of the scenario has returned "Completed".
C8_Witness ==
    /\ C8_Scenario
    /\ outcome = "Completed"
    /\ TargetCount("A") = 3
    /\ SessionIDs(session_log) = {1, 2}

\* The session_log records an invocation has added to those it found.
NewSessions == session_log \ before[2]

\* C9 as stated: every invocation that returns has appended exactly one
\* session_log record with a fresh ID.
C9_EveryInvocationAppends ==
    outcome \in {"Completed", "Already done"} =>
        /\ Cardinality(NewSessions) = 1
        /\ SessionIDs(NewSessions) \cap SessionIDs(before[2]) = {}

\* C9, amended: an invocation answered "Already done" appends nothing; every
\* other invocation appends, after its metadata record and before it reads a
\* row, exactly one session_log record, of its own hash and with an ID no
\* record had, and changes no record of an earlier invocation; the IDs of a
\* store are 1..n, so a crashed run and its resumption leave {1, 2}.
C9_OneSessionPerLoad ==
    /\ outcome = "Already done" => session_log = before[2]
    /\ pc \in {"metadata", "session"} => session_log = before[2]
    /\ (pc \in {"loop", "write", "upd_meta", "upd_session", "break", "finish"}
          \/ outcome = "Completed") =>
           /\ before[2] \subseteq session_log
           /\ Cardinality(NewSessions) = 1
           /\ SessionIDs(NewSessions) \cap SessionIDs(before[2]) = {}
           /\ \A r \in NewSessions : r.datafile_sha = called
    /\ SessionIDs(session_log) = 1..Cardinality(session_log)

\* A resumed load is reading rows: the store holds the session of the crashed
\* run and the one of the resumption.
C9_Witness ==
    /\ pc = "loop"
    /\ chunk_skip > 0
    /\ SessionIDs(session_log) = {1, 2}
    /\ SessionIDs(before[2]) = {1}
    /\ \A r \in session_log : r.datafile_sha = datafile_sha

\* The records of a content hash in the metadata table an invocation found.
Found(sha) == metadata_of(before[1], sha)

\* C10: once an invocation has its metadata record: a hash without a record
\* got a new one, Started, with chunk_count 0 and SequenceNumber 1 in an
\* empty table and max+1 otherwise, and nothing else changed; a hash with a
\* record added none and goes on with its Started record and the chunk_count
\* in it; the SequenceNumbers of a store are 1..n, so two files leave {1, 2}.
C10_SequenceNumbers ==
    /\ pc = "session" =>
         IF Found(datafile_sha) = {}
         THEN LET next == IF before[1] = {} THEN 1
                          ELSE Max({ r.SequenceNumber : r \in before[1] }) + 1
              IN  /\ metadata = before[1] \cup
                                  { [SequenceNumber |-> next, datafile_sha |-> datafile_sha,
                                     status |-> "Started", chunk_count |-> 0] }
                  /\ id_ = next
                  /\ chunk_skip = 0
         ELSE /\ metadata = before[1]
              /\ \E r \in Found(datafile_sha) :
                     /\ r.status = "Started"
                     /\ id_ = r.SequenceNumber
                     /\ chunk_skip = r.chunk_count
    /\ SequenceNumbers = 1..Cardinality(metadata)

\* The second of two files has got its metadata record.
C10_Witness ==
    /\ pc = "session"
    /\ Found(datafile_sha) = {}
    /\ Cardinality(before[1]) = 1
    /\ SequenceNumbers = {1, 2}
    /\ id_ = 2

\* The store holds the session of one invocation only, a load of this file:
\* no other invocation got as far as writing a row since the store was
\* created.
OnlyLoad(sha) ==
    /\ Cardinality(session_log) = 1
    /\ \A r \in session_log : r.datafile_sha = sha /\ r.first_chunk = 0

\* The primary-key values of the records the rowmaker makes of a file.
DistinctKeys(sha) == { files[sha][j] : j \in ValidRows(sha) }

\* C11 as stated, every input row counted: after the rows of one
\* uninterrupted load with a caller-supplied key are written, lines_dropped
\* is the number of input rows less the number of distinct keys.
C11_DroppedIsInputLessDistinct ==
    (pc = "finish" /\ ~autoinc /\ OnlyLoad(datafile_sha)) =>
        lines_dropped = Len(files[datafile_sha]) - Cardinality(DistinctKeys(datafile_sha))

\* C11, amended: with a caller-supplied key no two records of the target
\* share a key; one uninterrupted load leaves one record per distinct key,
\* the first of each, and lines_dropped is the number of well-formed rows
\* less the number of distinct keys (malformed rows are counted apart).
C11_DuplicateDedup ==
    /\ ~autoinc =>
          \A row \in BagToSet(property_data) :
              /\ property_data[row] = 1
              /\ \A other \in BagToSet(property_data) :
                     KeyOf(other) = KeyOf(row) => other = row
    /\ (pc = "finish" /\ ~autoinc /\ OnlyLoad(datafile_sha)) =>
          /\ TargetOf(datafile_sha) = Uninterrupted(datafile_sha)
          /\ TargetCount(datafile_sha) = Cardinality(DistinctKeys(datafile_sha))
          /\ lines_dropped = Cardinality(ValidRows(datafile_sha))
                               - Cardinality(DistinctKeys(datafile_sha))

\* One load has written a file in which a key comes back after a chunk
\* with that key was committed.
C11_Witness ==
    /\ pc = "finish"
    /\ ~autoinc
    /\ OnlyLoad(datafile_sha)
    /\ lines_dropped > 0
    /\ chunk_count > 0
    /\ TargetCount(datafile_sha) = Cardinality(DistinctKeys(datafile_sha))

\* C12: one uninterrupted load of a file with K malformed and N well-formed
\* rows (keys not repeated) counts K malformed lines, raises at no chunk
\* write, and when it has returned "Completed" the target holds exactly the
\* N records.
C12_MalformedTolerance ==
    /\ (pc = "write" /\ OnlyLoad(datafile_sha)) =>
          write_strict(property_data, datafile_sha, data).ok
    /\ (pc = "finish" /\ OnlyLoad(datafile_sha)) =>
          malformed_lines = Len(files[datafile_sha]) - Cardinality(ValidRows(datafile_sha))
    /\ (outcome = "Completed" /\ OnlyLoad(called)
          /\ (autoinc \/ NoDuplicateKeys(called))) =>
          /\ TargetCount(called) = Cardinality(ValidRows(called))
          /\ TargetOf(called) = Uninterrupted(called)

\* A file with a malformed row between two well-formed ones is loaded.
C12_Witness ==
    /\ outcome = "Completed"
    /\ OnlyLoad(called)
    /\ Len(files[called]) = 3
    /\ files[called][2] = Malformed
    /\ Cardinality(ValidRows(called)) = 2
    /\ TargetCount(called) = 2

\* The place of the row without the named field.
FaultAt(sha) == CHOOSE k \in Rows(sha) : files[sha][k] = MissingField

\* C13: when the rowmaker has raised KeyError, do_etl has ended without a
\* status, the metadata record of the file is Started, its chunk_count is
\* the number of chunks that precede the failing row, each of them present
\* in the target, and with a caller-supplied key (and no earlier kill
\* between a write and its checkpoint) the target holds the rows of those
\* chunks and no other of the file.
C13_KeyErrorIsFatal ==
    outcome = "KeyError" =>
        /\ pc = "idle"
        /\ metadata_of(metadata, called) # {}
        /\ \A r \in metadata_of(metadata, called) :
               /\ r.status = "Started"
               /\ r.chunk_count = (FaultAt(called) - 1) \div chunk_size
               /\ r.chunk_count = ChunksPresent(called)
        /\ (~autoinc /\ called \notin dirty) =>
               TargetCount(called) = chunk_size * StoredChunkCount(metadata, called)

\* The rowmaker has raised after a chunk was committed.
C13_Witness ==
    /\ outcome = "KeyError"
    /\ StoredChunkCount(metadata, called) > 0
    /\ TargetCount(called) > 0
    /\ \E r \in metadata : r.datafile_sha = called /\ r.status = "Started"

\* C14: when an exception leaves the row loop, raised by the rowmaker or by
\* the chunk write, no row of the buffer that is lost with it is in the
\* target.
C14_LostBufferNotInTarget ==
    [][ (pc \in {"loop", "write"} /\ outcome' \in {"KeyError", "raised"}) =>
            \E sha \in Shas :
                /\ sha = datafile_sha
                /\ \A k \in 1..Len(data) : ~WrittenIn(property_data', sha, data[k]) ]_vars

\* C15: whatever the kills and resumptions, no record of an input row is in
\* the target more than once.
C15_NoRowWrittenTwice ==
    \A row \in BagToSet(property_data) : property_data[row] = 1

\* C16: a first load in test mode with the chaos monkey (and the default
\* line limit), of a file longer than one chunk, does not return "Completed", and when it has returned
\* "Chaos monkey invoked" exactly one chunk is committed: chunk_count is 1,
\* the target holds chunk_size rows, the metadata record is Started.
C16_ChaosAfterOneChunk ==
    (mode = "test" /\ chaos_monkey /\ test_line_limit = DefaultLimit
       /\ OnlyLoad(called) /\ Len(files[called]) > chunk_size) =>
        /\ outcome # "Completed"
        /\ outcome = "Chaos monkey invoked" =>
               /\ StoredChunkCount(metadata, called) = 1
               /\ TargetCount(called) = chunk_size
               /\ \A r \in metadata_of(metadata, called) : r.status = "Started"

\* C17: in test mode a run never has processed more rows than
\* test_line_limit.
C17_LineLimit ==
    mode = "test" => line_count <= test_line_limit

\* The name of the store carries the suffix of test mode.
HasTestSuffix(cfg) ==
    IF cfg.db_type = "sqlite" THEN endswith(cfg.name, <<"-test", ".sqlite">>)
    ELSE endswith(cfg.name, <<"_test">>)

\* C18: in test mode the db_config do_etl works with carries the test
\* suffix, and differs from the one passed in unless that one carried it.
C18_TestStoreIsRenamed ==
    (mode = "test" /\ db_resolved.kind = "dict") =>
        /\ HasTestSuffix(db_resolved)
        /\ ~HasTestSuffix(normalise_config(db_given)) => db_resolved.name # db_given.name

\* configure_db has just been called, with this force.
Configured(f) == configured.tables # {} /\ configured.force = f

\* C19: after configure_db with force=False every table the store held is
\* there with the rows it had, the tables of the store are those and the
\* named ones, and when all named tables existed the store is unchanged.
C19_ConfigureIdempotent ==
    Configured(FALSE) =>
        /\ \A t \in DOMAIN configured.before :
               t \in DOMAIN catalog /\ catalog[t] = configured.before[t]
        /\ DOMAIN catalog = DOMAIN configured.before \cup configured.tables
        /\ configured.tables \subseteq DOMAIN configured.before =>
               catalog = configured.before

\* configure_db was called again, without force, for tables that exist and
\* hold rows.
C19_Witness ==
    /\ Configured(FALSE)
    /\ configured.tables \subseteq DOMAIN configured.before
    /\ \E t \in configured.tables : configured.before[t] # {}
    /\ catalog = configured.before

\* C20 as stated: after configure_db with force=True every table that was
\* not named is there with the rows it had.
C20_ForceKeepsOtherTables ==
    Configured(TRUE) =>
        \A t \in DOMAIN configured.before \ configured.tables :
            t \in DOMAIN catalog /\ catalog[t] = configured.before[t]

\* C20, amended: after configure_db with force=True the named tables exist
\* and are empty; on mysql and mariadb every other table is there with the
\* rows it had; on sqlite the file was removed and the store holds the named
\* tables only.
C20_ForceByBackend ==
    Configured(TRUE) =>
        /\ \A t \in configured.tables : t \in DOMAIN catalog /\ catalog[t] = {}
        /\ IF db_resolved.db_type = "sqlite"
           THEN DOMAIN catalog = configured.tables
           ELSE /\ DOMAIN catalog = DOMAIN configured.before \cup configured.tables
                /\ \A t \in DOMAIN configured.before \ configured.tables :
                       catalog[t] = configured.before[t]

\* On mysql a table with rows was dropped and recreated by force while
\* another one kept its rows.
C20_Witness ==
    /\ Configured(TRUE)
    /\ db_resolved.db_type = "mysql"
    /\ \E t \in configured.tables :
           t \in DOMAIN configured.before /\ configured.before[t] # {}
    /\ \E t \in DOMAIN catalog \ configured.tables : catalog[t] # {}

\* ------------------------------------------------------------- claims of the store adapter
\* The record of the table "test" with this UPRN, which no update changes.
RecordOf(table, uprn) == CHOOSE r \in table : r.UPRN = uprn

\* The rows of the latest call whose key values are those of the record.
MatchingRows(r) ==
    { j \in 1..Len(call.data) :
          \A k \in 1..Len(call.db_fields) :
              call.db_fields[k] \in call.key => call.data[j][k] = r[call.db_fields[k]] }

\* The rows of the latest call that match the record and give a value to
\* the field.
RowsSetting(r, f) ==
    { j \in MatchingRows(r) :
          \E k \in 1..Len(call.db_fields) :
              call.db_fields[k] = f /\ call.data[j][k] # None }

\* The value row j gives to field f.
ValueIn(j, f) ==
    call.data[j][CHOOSE k \in 1..Len(call.db_fields) : call.db_fields[k] = f]

\* C21: after update_to_db the table has the records it had, by UPRN; a key
\* field of a record is as it was; a non-key field holds the value of the
\* last row that matches the record on the key fields and gives the field a
\* value other than None, and is as it was when there is no such row.
C21_PartialUpdate ==
    call.op = "update_to_db" =>
        /\ { r.UPRN : r \in test } = { r.UPRN : r \in call.before }
        /\ Cardinality(test) = Cardinality(call.before)
        /\ \A r \in call.before :
               \A f \in DOMAIN r :
                   RecordOf(test, r.UPRN)[f] =
                       IF f \notin call.key /\ RowsSetting(r, f) # {}
                       THEN ValueIn(Max(RowsSetting(r, f)), f)
                       ELSE r[f]

\* A row that gives one field and leaves the other None has changed the one
\* and kept the other on the record it matches, and the other record is as
\* it was.
C21_Witness ==
    /\ call.op = "update_to_db"
    /\ Len(call.data) = 1
    /\ call.key = {"UPRN"}
    /\ call.data[1] = <<None, 1, 2>>
    /\ RecordOf(call.before, 2) = [UPRN |-> 2, PropertyID |-> 2, Addr1 |-> 3]
    /\ RecordOf(test, 2) = [UPRN |-> 2, PropertyID |-> 1, Addr1 |-> 3]
    /\ RecordOf(test, 1) = RecordOf(call.before, 1)

\* The store refuses row j of the latest batch: the table refuses its record,
\* or the key is the caller's and the table as the call found it, or an
\* earlier row of the batch, has it.
RefusedInBatch(j) ==
    \/ files["A"][j] = Refused
    \/ /\ ~autoinc
       /\ \/ \E old \in BagToSet(call.before) : KeyOf(old) = KeyOf(<<"A", j>>)
          \/ \E k \in 1..(j - 1) : files["A"][k] = files["A"][j]

\* The elements of a sequence.
Range(s) == { s[j] : j \in 1..Len(s) }

\* C22: write_to_db(whatever=True) does not raise, returns the refused rows
\* of the batch, each once, and has added the other rows of the batch to the
\* table, each once, and nothing else; write_to_db(whatever=False) raises if
\* and only if a row of the batch is refused, and has else added the batch.
C22_TolerantPartitionStrictRaises ==
    call.op = "write_to_db" =>
        LET batch == Range(call.data)
            refused == { j \in batch : RefusedInBatch(j) }
        IN  IF call.whatever
            THEN /\ ~call.raised
                 /\ Range(call.rejected) = refused
                 /\ Len(call.rejected) = Cardinality(refused)
                 /\ property_data =
                        call.before (+) SetToBag({ <<"A", j>> : j \in batch \ refused })
            ELSE /\ call.rejected = << >>
                 /\ call.raised <=> refused # {}
                 /\ ~call.raised =>
                        property_data =
                            call.before (+) SetToBag({ <<"A", j>> : j \in batch })

\* A tolerant write took one row of the batch and returned another.
C22_Witness ==
    /\ call.op = "write_to_db"
    /\ call.whatever
    /\ call.rejected # << >>
    /\ property_data # call.before

\* A strict write raised on a batch whose first row the table would take.
C22_WitnessStrict ==
    /\ call.op = "write_to_db"
    /\ ~call.whatever
    /\ call.raised
    /\ ~RefusedInBatch(1)
\* C23: read_db tries the query once more if and only if the first try
\* raised the host-unreachable error, and then after sleeping err_wait once;
\* it never tries a third time.  When the last try succeeded the rows of the
\* table are returned; when the second try raised, that error leaves read_db;
\* when the first try raised another error, that error leaves read_db with
\* no sleep and no second try.
C23_OneRetryOnHostError ==
    reading.op = "read_db" =>
        /\ Len(reading.faults) <= 2
        /\ reading.slept \in {0, ErrWait}
        /\ reading.slept = ErrWait <=>
               (reading.pc \in {"retry", "done"} /\ reading.faults # << >>
                    /\ reading.faults[1] = "CR_CONN_HOST_ERROR")
        /\ reading.pc \in {"sleep", "retry"} => reading.faults = <<"CR_CONN_HOST_ERROR">>
        /\ reading.pc = "done" =>
               IF reading.faults = << >> \/ reading.faults = <<"CR_CONN_HOST_ERROR">>
               THEN reading.result = "returned" /\ reading.rows = catalog[reading.table]
               ELSE /\ reading.result = reading.faults[Len(reading.faults)]
                    /\ Len(reading.faults) = 2 => reading.faults[1] = "CR_CONN_HOST_ERROR"
                    /\ Len(reading.faults) = 1 => reading.faults[1] # "CR_CONN_HOST_ERROR"

\* A read of a table with rows met an unreachable host, slept, tried again
\* and returned the rows.
C23_Witness ==
    /\ reading.op = "read_db"
    /\ reading.pc = "done"
    /\ reading.faults = <<"CR_CONN_HOST_ERROR">>
    /\ reading.slept = ErrWait
    /\ reading.result = "returned"
    /\ reading.rows # {}

\* The second try met the unreachable host again and the error left read_db.
C23_WitnessFatal ==
    /\ reading.op = "read_db"
    /\ reading.pc = "done"
    /\ reading.faults = <<"CR_CONN_HOST_ERROR", "CR_CONN_HOST_ERROR">>
    /\ reading.result = "CR_CONN_HOST_ERROR"
\* ------------------------------------------------------------- claims of the checkpoint tables
\* Every record of the table is in the table after the step, whatever its
\* other fields have become.
MetadataKept == \A r \in metadata : \E q \in metadata' : q.SequenceNumber = r.SequenceNumber
SessionLogKept == \A r \in session_log : \E q \in session_log' : q.ID = r.ID

\* do_etl gets to configure_db with force=True.
ForcedStart == pc = "idle" /\ pc' = "metadata" /\ force'

BlockWritten(c) == \A k \in RowsOf(c) : BagIn(k, property_data)

\* Chunk c has a row in chunk_log.
InLedger(c) == BagIn(c, chunk_log)

\* The chunk_log rows of chunk c go with this step.
LedgerEntryRemoved(c) == BagIn(c, chunk_log) /\ ~BagIn(c, chunk_log')

Resumed ==
    /\ Len(before) = 4
    /\ check_stage_status(before[1], 0) = "Started"
    /\ before[3] # EmptyBag

\* C26: when a run that resumes a killed one has made its futures, there is
\* a future for each chunk that had a chunk_log row when the run began and
\* for no other chunk.
C26_ResumeSetIsLedger ==
    (Resumed /\ pc = "collect") =>
        \A c \in ChunkNumbers : c \in DOMAIN futures <=> BagIn(c, before[3])
\* C27: chunk_log never holds two rows for a chunk number; and when a run has
\* found the target empty and is about to make its futures, chunk_log holds
\* one row for every chunk of the key generator.
C27_OneLedgerRowPerChunk ==
    /\ \A c \in ChunkNumbers : CopiesIn(c, chunk_log) <= 1
    /\ (pc = "launch" /\ BagCardinality(property_data) = 0) =>
           \A c \in ChunkNumbers : CopiesIn(c, chunk_log) = 1
\* The steps of updater that commit the result of a collected future.
CommitSteps == {"insert", "upd_chunk_count", "upd_last_chunk", "delete"}

\* The step writes to property_data, metadata or session_log, or deletes
\* from chunk_log.
StoreMutation ==
    \/ property_data' # property_data
    \/ metadata' # metadata
    \/ session_log' # session_log
    \/ \E c \in ChunkNumbers : CopiesIn(c, chunk_log') < CopiesIn(c, chunk_log)

\* C28: while the run has futures, a step that changes the store is a commit
\* step of the orchestrating thread for the one result it has collected and
\* not yet committed, or its final report after the last one, and leaves the
\* futures as they are; so a worker finishing a block changes nothing in the
\* store.  A result is collected only when every result collected before is
\* committed in full: its rows are written and its chunk_log rows deleted.
C28_WritesOnlyOnOrchestrator ==
    /\ [][(DOMAIN futures # {} /\ pc # "idle" /\ StoreMutation) =>
              \/ /\ pc \in CommitSteps
                 /\ futures[chunk_loc] = "received"
                 /\ \A c \in DOMAIN futures : futures'[c] = futures[c]
              \/ /\ pc = "collect"
                 /\ \A c \in DOMAIN futures : futures[c] = "received"
                 /\ pc' = "idle"]_vars
    /\ [](pc = "collect" =>
              \A c \in DOMAIN futures :
                  futures[c] = "received" => BlockWritten(c) /\ ~InLedger(c))
    /\ [](pc \in CommitSteps =>
              \A c \in DOMAIN futures :
                  (futures[c] = "received" /\ c # chunk_loc) =>
                      BlockWritten(c) /\ ~InLedger(c))

\* The orchestrating thread is in the middle of the commit of chunk 1, which
\* was finished first, while a worker has finished chunk 0, whose rows are
\* not in the store.
C28_Witness ==
    /\ pc = "upd_chunk_count"
    /\ chunk_loc = 1
    /\ 0 \in DOMAIN futures
    /\ futures[0] = "built"
    /\ BlockWritten(1)
    /\ ~BlockWritten(0)
\* The latest build_cache found chunk c written and in the ledger: an
\* earlier run was killed between the write of its rows and the delete of
\* its chunk_log rows.
LeftHalfDone(c) ==
    /\ Len(before) = 4
    /\ BagIn(c, before[3])
    /\ \A k \in RowsOf(c) : BagIn(k, before[4])

\* The run has tried to write the rows of chunk c: the write went through,
\* or it raised.
WriteTried(c) ==
    \/ pc \in {"upd_chunk_count", "upd_last_chunk", "delete"} /\ chunk_loc = c
    \/ pc = "idle" /\ outcome = "IntegrityError" /\ called = c

\* C29 as stated: when the resumed run has tried to write a chunk that it
\* found written and in the ledger, the rows of the chunk are in the store
\* twice.
C29_OutputTwiceOnResume ==
    \A c \in ChunkNumbers :
        (LeftHalfDone(c) /\ WriteTried(c)) =>
            \A k \in RowsOf(c) : CopiesIn(k, property_data) >= 2

\* C29, amended: a run that finds a chunk written and in the ledger makes a
\* future for it.  When the target has no key of the caller's, its write adds
\* the rows once more to those the run found and the run goes on; when it
\* has one, the write raises IntegrityError, the rows are in the store once
\* and the chunk stays in the ledger.
C29_TwiceOrIntegrityError ==
    \A c \in ChunkNumbers :
        LeftHalfDone(c) =>
            /\ pc \in {"collect"} \cup CommitSteps => c \in DOMAIN futures
            /\ (pc \in {"upd_chunk_count", "upd_last_chunk", "delete"} /\ chunk_loc = c) =>
                   /\ autoinc
                   /\ \A k \in RowsOf(c) :
                          CopiesIn(k, property_data) = CopiesIn(k, before[4]) + 1
            /\ (pc = "idle" /\ outcome = "IntegrityError" /\ called = c) =>
                   /\ ~autoinc
                   /\ InLedger(c)
            /\ ~autoinc => \A k \in RowsOf(c) : CopiesIn(k, property_data) = 1

\* The resumed run has written again the chunk it found written and in the
\* ledger, and is about to delete its chunk_log rows.
C29_Witness ==
    /\ pc = "delete"
    /\ LeftHalfDone(chunk_loc)
    /\ \A k \in RowsOf(chunk_loc) : CopiesIn(k, property_data) = 2
\* chunk_count of the metadata record of the stage.
StageChunkCount(table) ==
    (CHOOSE r \in table : r.SequenceNumber = 0).chunk_count

\* C30: when updater has stored chunk_count for a collected chunk, the
\* metadata record holds the number of chunks skipped plus the number of
\* results collected in this run; a step that changes the stored chunk_count
\* raises it by one; no step lowers it.
C30_ChunkCountCountsCommits ==
    /\ [](pc \in {"upd_last_chunk", "delete"} =>
              StageChunkCount(metadata) = chunk_skip + n_chunks_received)
    /\ [][(metadata # {} /\ StageChunkCount(metadata') # StageChunkCount(metadata)) =>
              StageChunkCount(metadata') = StageChunkCount(metadata) + 1]_vars

\* ------------------------------------------------------------- claims of the commit order
\* The rows of the write buffer are in the target.
BufferWritten ==
    \A k \in Range(data) : BagIn(<<datafile_sha, k>>, property_data)

\* chunk_count in the metadata record of the running load, last_chunk in its
\* session_log record.
MetadataChunkCount == { r.chunk_count : r \in { q \in metadata : q.SequenceNumber = id_ } }
SessionLastChunk == { r.last_chunk : r \in { q \in session_log : q.ID = sessid } }

\* C31: in the commit of a chunk the write comes first, the metadata update
\* second and the session_log update third.  Before the write both
\* checkpoints hold the old chunk_count; when the metadata update is issued
\* the rows of the buffer are in the target and neither checkpoint has moved;
\* when the session_log update is issued the rows are in the target, the
\* metadata record holds the new chunk_count and the session record the old
\* one.  A write that raised leaves no update pending.
C31_CommitOrder ==
    /\ pc = "write" =>
           /\ MetadataChunkCount = {chunk_count}
           /\ SessionLastChunk = {chunk_count}
    /\ pc = "upd_meta" =>
           /\ BufferWritten
           /\ MetadataChunkCount = {chunk_count}
           /\ SessionLastChunk = {chunk_count}
    /\ pc = "upd_session" =>
           /\ BufferWritten
           /\ MetadataChunkCount = {chunk_count}
           /\ SessionLastChunk = {chunk_count - 1}
    /\ outcome = "raised" => pc = "idle"

\* The second chunk of a load is written and counted in metadata, and the
\* session_log update is due.
C31_Witness ==
    /\ pc = "upd_session"
    /\ data # << >>
    /\ chunk_count = 2
    /\ BufferWritten
    /\ MetadataChunkCount = {2}
    /\ SessionLastChunk = {1}

\* C32: the step that completes a chunk commit (the session_log update, after
\* which the loop goes to the next row) leaves the number of input rows
\* consumed, i' = rows skipped plus rows read, equal to the stored
\* chunk_count times chunk_size.
C32_ConsumedIsCheckpoint ==
    [][(pc = "upd_session" /\ pc' # "idle") =>
           /\ MetadataChunkCount' = {chunk_count'}
           /\ i' = chunk_count' * chunk_size]_vars

\* The SequenceNumber of the metadata record the latest invocation worked
\* with: the one of its hash that it found, else the one it created.
SequenceNumberOf(sha) ==
    IF Found(sha) # {} THEN Max({ r.SequenceNumber : r \in Found(sha) })
    ELSE IF before[1] = {} THEN 1
    ELSE Max({ r.SequenceNumber : r \in before[1] }) + 1

\* C33: when do_etl has returned "Completed" for a content hash, the metadata
\* record with the SequenceNumber of that hash is Complete, and the records
\* the invocation found for other hashes are in the table as they were.
C33_CompletesOwnRecord ==
    outcome = "Completed" =>
        /\ \E r \in metadata :
               /\ r.SequenceNumber = SequenceNumberOf(called)
               /\ r.datafile_sha = called
               /\ r.status = "Complete"
        /\ \A r \in before[1] : r.datafile_sha # called => r \in metadata

\* The session_log record of the running invocation.
SessionRecord == { r \in session_log : r.ID = sessid }

\* A do_etl has its session_log record and has not ended.
InSession == pc \in {"loop", "write", "upd_meta", "upd_session", "break", "finish"}

\* Every session_log record is kept with its first_chunk and a last_chunk
\* that is not lower.
SessionAdvances ==
    \A r \in session_log :
        \E q \in session_log' :
            /\ q.ID = r.ID
            /\ q.first_chunk = r.first_chunk
            /\ q.last_chunk >= r.last_chunk

\* C34: the session_log record of an invocation is new and the only one with
\* its ID; it starts with first_chunk = last_chunk = chunk_skip, the
\* chunk_count read from metadata; while the invocation runs first_chunk
\* stays chunk_skip, last_chunk is at least first_chunk and at most the
\* chunk_count in the metadata record, and equal to it whenever no chunk
\* commit is under way; no step but the configure_db of a force=True call
\* changes a first_chunk or lowers a last_chunk.
C34_SessionChunks ==
    /\ [](InSession =>
              /\ Cardinality(SessionRecord) = 1
              /\ SessionRecord \cap before[2] = {}
              /\ \A r \in SessionRecord :
                     /\ r.first_chunk = chunk_skip
                     /\ r.first_chunk <= r.last_chunk
                     /\ \A c \in MetadataChunkCount : r.last_chunk <= c
                     /\ pc # "upd_session" => MetadataChunkCount = {r.last_chunk}
                     /\ (pc = "loop" /\ chunk_count = chunk_skip) =>
                            /\ r.last_chunk = chunk_skip
                            /\ chunk_skip = StoredChunkCount(before[1], datafile_sha))
    /\ [][ForcedStart \/ SessionAdvances]_vars

\* A resumed load has committed a chunk: its session record begins at the
\* chunk_count it found and ends at the one stored now.
C34_Witness ==
    /\ pc = "loop"
    /\ chunk_skip > 0
    /\ chunk_count > chunk_skip
    /\ \E r \in SessionRecord :
           /\ r.first_chunk = chunk_skip
           /\ r.last_chunk = chunk_count
    /\ MetadataChunkCount = {chunk_count}

\* The step in which a do_etl called with force=True returns "Completed".
ForcedCompletion == pc = "finish" /\ force /\ outcome' = "Completed"

\* C35: when a do_etl called with force=True returns "Completed", the target
\* table holds what one uninterrupted load of the file leaves in an empty
\* table and nothing else, whatever the store held before the call, and the
\* metadata table holds one record, of this file, Complete.
C35_ForceRestartsFromZero ==
    [][ForcedCompletion =>
           /\ chunk_skip = 0
           /\ property_data' = Uninterrupted(datafile_sha)
           /\ Cardinality(metadata') = 1
           /\ \A r \in metadata' :
                  r.datafile_sha = datafile_sha /\ r.status = "Complete"]_vars

\* A load of file A with force=True, called on a store that held the progress
\* of an earlier load of A, has written its last rows and is about to
\* return: the target holds one load of the file.
C35_Witness ==
    /\ pc = "finish"
    /\ force
    /\ datafile_sha = "A"
    /\ chunk_skip = 0
    /\ chunk_count > 0
    /\ property_data = Uninterrupted("A")
    /\ BagCardinality(property_data) > 1

\* ------------------------------------------------------------- claims of the test store
\* C36: in test mode a db_config that carries the test suffix already (a
\* path that ends with "-test.sqlite", a database name that ends with
\* "_test") is resolved to itself, normalised: no second suffix, no
\* exception.
C36_TestRenameIdempotent ==
    (mode = "test" /\ db_resolved # Unresolved
         /\ HasTestSuffix(normalise_config(db_given)))
        => db_resolved = normalise_config(db_given)

\* ------------------------------------------------------------- claims of the completion order
\* The chunks the latest build_cache run dispatches: those of the chunk_log
\* it found when the target had rows, every chunk when it had none.
Dispatched ==
    IF before[4] = EmptyBag THEN ChunkNumbers
    ELSE NumbersIn(before[3]) \cap ChunkNumbers

\* The stage is complete: updater returned and build_cache wrote the status.
StageComplete == pc = "idle" /\ check_stage_status(metadata, 0) = "Complete"

\* The rows of every chunk dispatched are in the target once.
DispatchedOnce ==
    \A c \in Dispatched : \A k \in RowsOf(c) : CopiesIn(k, property_data) = 1

\* C37: whatever the order the futures complete in, every updater run that
\* ends without a crash leaves chunk_log empty and the rows of every chunk it
\* dispatched in the target exactly once.
C37_AnyRunLeavesRowsOnce ==
    (Len(before) = 4 /\ StageComplete) =>
        /\ chunk_log = EmptyBag
        /\ DispatchedOnce

\* ------------------------------------------------------------- claims of the chunk lookup
\* C38: whenever the result of chunk c is handed over, the chunk number
\* recovered from its first row is c, the number its keys were dispatched
\* under, so that the chunk_log row deleted after the commit is the row of
\* the chunk just written; this for every chunk, the ones whose first key is
\* blank or has no row and the ones that share a first key included.
C38_RecoversDispatchedNumber ==
    [][\A c \in ChunkNumbers :
           Receive(c) => (pc' = "insert" /\ chunk_loc' = c)]_vars

\* C39: a chunk whose keys make no row at all is committed like any other:
\* handing over its empty result raises nothing, no row is written for it,
\* and the run goes on to the checkpoint and to the delete of its chunk_log
\* row.
C39_EmptyChunkIsCommitted ==
    [][\A c \in ChunkNumbers :
           (Receive(c) /\ rows_block(c) = << >>) =>
               /\ outcome' = "running"
               /\ pc' = "insert"
               /\ property_data' = property_data
               /\ chunk_log' = chunk_log]_vars

\* ------------------------------------------------------------- claims of the stages
\* The rows of constructor s, every chunk of its key generator.
StageRows(s) ==
    UNION { { stage_rows_block(s, c)[k] : k \in 1..Len(stage_rows_block(s, c)) } :
                c \in ChunkNumbers }

\* C40: with several constructors, a stage that metadata shows as Complete
\* has the rows of every chunk of its key generator in property_data, the
\* second and later stages as well as the first; and a constructor whose
\* stage is Complete is passed over on a re-run, which writes no row for it.
C40_CompleteStageIsBuilt ==
    /\ [](\A r \in metadata :
             r.status = "Complete" =>
                 \A row \in StageRows(r.SequenceNumber) : BagIn(row, property_data))
    /\ [][(pc = "stage" /\ check_stage_status(metadata, id_) = "Complete") =>
              (pc' # "count" /\ property_data' = property_data)]_vars

====
